---- MODULE Spec2Model ----
(***************************************************************************)
(* Job Search Intelligence Tool: the referral locator (referral_finder.py), *)
(* the outreach composer (message_generator.py), the match scorer           *)
(* (matcher.py), the job description interpreter (jd_parser.py), the        *)
(* tracker file (excel_handler.py), the resume cache (resume_parser.py) and *)
(* the run that drives them (main.py), each as a state machine over the     *)
(* replies of the services it calls and the files it finds.                 *)
(***************************************************************************)
EXTENDS Integers, Sequences, FiniteSets, TLC

VARIABLES
    \* ---- referral_finder.find_referrals ----
    use_serpapi,   \* bool(config.SERPAPI_API_KEY)
    rf_pc,         \* position in find_referrals
    rf_i,          \* index of the targeted search loop
    referrals,     \* the list being built
    seen_urls,     \* the URL dedup set
    rf_log,        \* searches issued (by kind), failed requests and sleeps, in order
    rf_dup,        \* history: a profile was skipped because its URL was already accepted
    rf_found,      \* profiles: what the last call of _search returned
    rf_out         \* the returned list

rfVars == <<use_serpapi, rf_pc, rf_i, referrals, seen_urls, rf_log, rf_dup, rf_found,
            rf_out>>

VARIABLES
    \* ---- message_generator.generate_messages ----
    gm_pc,          \* position in generate_messages
    gm_referrals,   \* the referrals argument
    messages,       \* one slot per referral
    real_profiles,  \* the profiles put in the prompt
    index_map,      \* position in real_profiles -> position in referrals
    gm_parsed,      \* the reply of the service, once obtained
    gm_log,         \* requests made and cooldowns taken, in order
    gm_out          \* the returned list

gmVars == <<gm_pc, gm_referrals, messages, real_profiles, index_map, gm_parsed, gm_log,
            gm_out>>

VARIABLES
    \* ---- matcher.match_resume_to_jd and the row's use of its result ----
    ms_pc,          \* position in match_resume_to_jd, then in the row of main
    match_result,   \* the value match_resume_to_jd returned
    ms_log,         \* requests made and cooldowns taken, in order
    match_pct,      \* main: match_result.get("match_percentage", 0)
    improvements,   \* main: match_result.get("improvements", [])
    cell_c,         \* the row's "Match %" cell in the saved tracker
    cell_d          \* the row's "3 areas of improvement" cell in the saved tracker

msVars == <<ms_pc, match_result, ms_log, match_pct, improvements, cell_c, cell_d>>

VARIABLES
    \* ---- jd_parser.parse_jd ----
    jd_pc,          \* position in parse_jd
    jd_data,        \* the value parse_jd returned
    jd_log          \* requests made and cooldowns taken, in order

jdVars == <<jd_pc, jd_data, jd_log>>

VARIABLES
    \* ---- excel_handler: the tracker file and the rows a run takes from it ----
    tracker,        \* the saved tracker: its column B header and the cells of its data rows
    st_pc,          \* "ready" while runs may read and write the tracker
    st_selected,    \* the rows read_unprocessed_rows returned last, in order
    st_done,        \* history: rows written since that read
    st_persisted    \* history: rows write_results completed for, in any run

stVars == <<tracker, st_pc, st_selected, st_done, st_persisted>>

VARIABLES
    \* ---- resume_parser.parse_resume ----
    rs_pc,          \* "ready" while parse_resume may be called
    resume_pdf,     \* the resume file: whether it exists, its mtime, whether it has text
    cache,          \* resume_parsed.json
    rs_calls        \* history: one record per call of parse_resume

rsVars == <<rs_pc, resume_pdf, cache, rs_calls>>

VARIABLES
    \* ---- main.main: one run of the tool ----
    run_pc,         \* position in main
    api_key,        \* bool(config.ANTHROPIC_API_KEY)
    store_locked,   \* another application holds the tracker file open
    unprocessed,    \* the rows read_unprocessed_rows returned
    row_i,          \* index in unprocessed of the row being processed
    succeeded,      \* the rows appended to succeeded, in order
    failed,         \* the rows appended to failed, each with the step that raised
    tc_called,      \* history: the run made a request to the Text Completion Service
    ps_called,      \* history: the run made a request to the Profile Search Service
    run_log,        \* the calls of the row loop of main (write_results once it
                    \* returned) and its sleeps, in order
    tc_gap          \* history: what the run did last, of a request to the Text
                    \* Completion Service ("request") and a sleep ("delay"), when
                    \* main last took a result; "none" before the first request

runVars == <<run_pc, api_key, store_locked, unprocessed, row_i, succeeded, failed,
             tc_called, ps_called, run_log, tc_gap>>

vars == <<rfVars, gmVars, msVars, jdVars, stVars, rsVars, runVars>>

\* what each part leaves alone
notRf == <<gmVars, msVars, jdVars, stVars, rsVars, runVars>>
notGm == <<rfVars, msVars, jdVars, stVars, rsVars, runVars>>
notMs == <<rfVars, gmVars, jdVars, stVars, rsVars, runVars>>
notJd == <<rfVars, gmVars, msVars, stVars, rsVars, runVars>>
notSt == <<rfVars, gmVars, msVars, jdVars, rsVars, runVars>>
notRs == <<rfVars, gmVars, msVars, jdVars, stVars, runVars>>

\* ------------------------------------------------------------------ bounds
MaxResults == 2      \* results in one reply of the Profile Search Service
MaxReplyLen == 3     \* entries in a list reply of the Text Completion Service
MaxImprovements == 4 \* improvements in a reply of the Text Completion Service
MaxTrackerRows == 2  \* data rows of the tracker
MaxMtime == 2        \* modification times the resume file takes
MaxCalls == 3        \* calls of parse_resume that are followed

SeqsUpTo(S, n) == UNION {[1..k -> S] : k \in 0..n}

\* ------------------------------------------------------------- referral_finder
NumSlots == 3
SentinelName == "Could not find profile"

\* A link is the text before the first "?" (base) and what follows it (q, "" when
\* the link holds no "?"). Bases li_* hold "linkedin.com/in/"; the query "raw_li"
\* holds it too; "enc" is the urlencoded manual query, in which "/" is %2F.
ProfileBases == {"li_a", "li_b", "li_c"}
Link(b, q) == [base |-> b, q |-> q]
NullLink == Link("null", "")

\* "linkedin.com/in/" in link
ContainsProfilePath(link) == link.base \in ProfileBases \/ link.q = "raw_li"

\* link.split("?")[0]
StripQuery(link) == Link(link.base, "")

\* the URL built for a sentinel slot: google.com/search? + urlencode(q)
ManualSearchUrl == Link("google_search", "enc")

\* A search result: link, title split on " - " (tn, tr), snippet (dn: a leading
\* "Firstname Lastname", dt: its text).
Result(l, tn, tr, dn, dt) == [link |-> l, tn |-> tn, tr |-> tr, dn |-> dn, dt |-> dt]

RawResults ==
    { Result(Link("li_a", ""), "Ann", "Engineer", "", ""),
      Result(Link("li_a", "trk"), "", "", "Bob Ray", "Bob Ray is a lead"),
      Result(Link("li_b", ""), SentinelName, "", "", ""),
      Result(Link("li_c", ""), "", "", "", ""),
      Result(Link("web", ""), "Dan", "Blog", "", ""),
      Result(ManualSearchUrl, "Eve", "Search", "", ""),
      Result(Link("google_search", "raw_li"), "Fay", "Cache", "", ""),
      Result(NullLink, "", "", "", "") }

\* What the Profile Search Service does on one request: it fails before any
\* result is read, or it replies with a list of results.
SearchOutcomes ==
    {[fail |-> TRUE, results |-> <<>>]}
        \cup {[fail |-> FALSE, results |-> r] : r \in SeqsUpTo(RawResults, MaxResults)}


ParseLinkedinTitle(r) ==
    LET name == IF r.tn # "" THEN r.tn ELSE r.dn
        person_title == IF r.tr # "" THEN r.tr ELSE r.dt
    IN  [name |-> IF name # "" THEN name ELSE "Unknown",
         title |-> IF person_title # "" THEN person_title ELSE "Professional"]

Profile(r) ==
    LET p == ParseLinkedinTitle(r)
    IN  [name |-> p.name, title |-> p.title, url |-> StripQuery(r.link),
         connection_type |-> "none"]

\* The loop over the results; an exception raised on a result (a null link) is
\* caught by the except clause around the loop and the profiles collected so far
\* are returned.
RECURSIVE CollectProfiles(_, _)
CollectProfiles(results, profiles) ==
    IF results = <<>> THEN profiles
    ELSE LET r == Head(results) IN
         IF r.link = NullLink THEN profiles
         ELSE IF ~ContainsProfilePath(r.link)
              THEN CollectProfiles(Tail(results), profiles)
              ELSE CollectProfiles(Tail(results), Append(profiles, Profile(r)))

SearchSerpapi(o) ==
    [raised |-> FALSE,
     profiles |-> IF o.fail THEN <<>> ELSE CollectProfiles(o.results, <<>>)]

SearchGoogleFallback(o) ==
    [raised |-> FALSE,
     profiles |-> IF o.fail THEN <<>> ELSE CollectProfiles(o.results, <<>>)]

Search(serpapi, o) == IF serpapi THEN SearchSerpapi(o) ELSE SearchGoogleFallback(o)

\* One call of _search as find_referrals sees it: whether the request failed
\* inside the backend, and what the call did (raised or returned profiles).
Call(serpapi, o) == [fail |-> o.fail, res |-> Search(serpapi, o)]

\* every call, by the backend configured
SearchCalls == [serpapi \in BOOLEAN |-> {Call(serpapi, o) : o \in SearchOutcomes}]

\* The calls followed from the current state: within a run of main (run_pc is
\* not "idle") a few of them.
SearchCallsNow ==
    IF run_pc = "idle" THEN SearchCalls[use_serpapi]
    ELSE
    {Call(use_serpapi, o) : o \in
        {[fail |-> TRUE, results |-> <<>>],
         [fail |-> FALSE, results |-> <<Result(Link("li_a", ""), "Ann", "Engineer", "", "")>>],
         [fail |-> FALSE, results |-> <<Result(Link("li_c", ""), "Cy", "Analyst", "", "")>>]}}

ConnectionTypesManagerFirst == <<"hiring_manager", "same_role", "peer">>
\* the connection_type of the entries of searches, in their order (lines 126-139)
ConnectionTypes == <<"same_role", "hiring_manager", "peer">>

\* What one call of _search leaves in the log: the search issued, named by its
\* kind, and "failed" when the request raised inside _search (lines 48-69, 77-97).
Attempt(kind, call) == IF call.fail THEN <<kind, "failed">> ELSE <<kind>>

NotSeenAlways(url, seen) == TRUE
\* profile["url"] not in seen_urls
NotSeen(url, seen) == url \notin seen

AddSeenForgets(seen, url) == seen
\* seen_urls.add(profile["url"])
AddSeen(seen, url) == seen \cup {url}

TaggedPeer(profile, ctype) == [profile EXCEPT !.connection_type = "peer"]
\* profile["connection_type"] = search_config["connection_type"]
Tagged(profile, ctype) == [profile EXCEPT !.connection_type = ctype]

\* for profile in profiles: accept the first one with a new URL, then break
RECURSIVE AcceptFirst(_, _, _, _)
AcceptFirst(profiles, refs, seen, ctype) ==
    IF profiles = <<>> THEN [refs |-> refs, seen |-> seen, dup |-> FALSE]
    ELSE IF NotSeen(Head(profiles).url, seen)
         THEN [refs |-> Append(refs, Tagged(Head(profiles), ctype)),
               seen |-> AddSeen(seen, Head(profiles).url), dup |-> FALSE]
         ELSE [AcceptFirst(Tail(profiles), refs, seen, ctype) EXCEPT !.dup = TRUE]

RECURSIVE AcceptAllNew(_, _, _)
AcceptAllNew(profiles, refs, seen) ==
    IF profiles = <<>>
    THEN [refs |-> refs, seen |-> seen, dup |-> FALSE]
    ELSE IF NotSeen(Head(profiles).url, seen)
         THEN AcceptAllNew(Tail(profiles), Append(refs, Tagged(Head(profiles), "peer")),
                           AddSeen(seen, Head(profiles).url))
         ELSE [AcceptAllNew(Tail(profiles), refs, seen) EXCEPT !.dup = TRUE]

\* the fallback loop: accept new URLs as peers until 3 are held
RECURSIVE AcceptUpTo3(_, _, _)
AcceptUpTo3(profiles, refs, seen) ==
    IF profiles = <<>> \/ Len(refs) >= NumSlots
    THEN [refs |-> refs, seen |-> seen, dup |-> FALSE]
    ELSE IF NotSeen(Head(profiles).url, seen)
         THEN AcceptUpTo3(Tail(profiles), Append(refs, Tagged(Head(profiles), "peer")),
                          AddSeen(seen, Head(profiles).url))
         ELSE [AcceptUpTo3(Tail(profiles), refs, seen) EXCEPT !.dup = TRUE]

SentinelCandidate ==
    [name |-> SentinelName, title |-> "Try searching manually",
     url |-> ManualSearchUrl, connection_type |-> "unknown"]

RECURSIVE FillSlotsInFront(_)
FillSlotsInFront(refs) ==
    IF Len(refs) < NumSlots THEN FillSlotsInFront(<<SentinelCandidate>> \o refs) ELSE refs

FillSlotsOnce(refs) == IF Len(refs) < NumSlots THEN Append(refs, SentinelCandidate) ELSE refs
\* while len(referrals) < 3: referrals.append(sentinel)
RECURSIVE FillSlots(_)
FillSlots(refs) ==
    IF Len(refs) < NumSlots THEN FillSlots(Append(refs, SentinelCandidate)) ELSE refs

\* referrals[:3]
FirstThree(refs) == SubSeq(refs, 1, IF Len(refs) < NumSlots THEN Len(refs) ELSE NumSlots)

\* One pass of the loop over the three targeted searches (lines 141-164).
RfTargetedSearch ==
    /\ rf_pc = "targeted"
    /\ IF Len(referrals) >= NumSlots
       THEN /\ rf_pc' = "fallback"
            /\ UNCHANGED <<rf_i, referrals, seen_urls, rf_log, rf_dup, rf_found>>
       ELSE \E o1 \in SearchCallsNow :
            LET pause == IF rf_i > 0 THEN <<"pause">> ELSE <<>>
                kind == ConnectionTypes[rf_i + 1]
                first == o1.res
            IN  IF first.raised
                THEN \E o2 \in SearchCallsNow :
                     LET second == o2.res
                         profiles == IF second.raised THEN <<>> ELSE second.profiles
                         acc == AcceptFirst(profiles, referrals, seen_urls,
                                            ConnectionTypes[rf_i + 1])
                     IN  /\ rf_found' = profiles
                         /\ referrals' = acc.refs
                         /\ seen_urls' = acc.seen
                         /\ rf_dup' = (rf_dup \/ acc.dup)
                         /\ rf_log' = rf_log \o pause \o Attempt(kind, o1)
                                        \o <<"rate_limit_wait">> \o Attempt(kind, o2)
                ELSE LET acc == AcceptFirst(first.profiles, referrals, seen_urls,
                                            ConnectionTypes[rf_i + 1])
                     IN  /\ rf_found' = first.profiles
                         /\ referrals' = acc.refs
                         /\ seen_urls' = acc.seen
                         /\ rf_dup' = (rf_dup \/ acc.dup)
                         /\ rf_log' = rf_log \o pause \o Attempt(kind, o1)
            /\ rf_i' = rf_i + 1
            /\ rf_pc' = IF rf_i + 1 < Len(ConnectionTypes) THEN "targeted" ELSE "fallback"
    /\ UNCHANGED <<use_serpapi, rf_out>>
    /\ UNCHANGED notRf

\* The broader fallback search (lines 166-179).
RfFallback ==
    /\ rf_pc = "fallback"
    /\ IF Len(referrals) < NumSlots
       THEN \E o \in SearchCallsNow :
            LET res == o.res
                acc == IF res.raised
                       THEN [refs |-> referrals, seen |-> seen_urls, dup |-> FALSE]
                       ELSE AcceptUpTo3(res.profiles, referrals, seen_urls)
            IN  /\ rf_found' = IF res.raised THEN <<>> ELSE res.profiles
                /\ referrals' = acc.refs
                /\ seen_urls' = acc.seen
                /\ rf_dup' = (rf_dup \/ acc.dup)
                /\ rf_log' = rf_log \o <<"pause">> \o Attempt("fallback", o)
       ELSE UNCHANGED <<referrals, seen_urls, rf_log, rf_dup, rf_found>>
    /\ rf_pc' = "fill"
    /\ UNCHANGED <<use_serpapi, rf_i, rf_out>>
    /\ UNCHANGED notRf

\* Filling the remaining slots and returning (lines 181-193).
RfFillAndReturn ==
    /\ rf_pc = "fill"
    /\ referrals' = FillSlots(referrals)
    /\ rf_out' = FirstThree(referrals')
    /\ rf_pc' = "done"
    /\ UNCHANGED <<use_serpapi, rf_i, seen_urls, rf_log, rf_dup, rf_found>>
    /\ UNCHANGED notRf

RfNext == RfTargetedSearch \/ RfFallback \/ RfFillAndReturn

\* ----------------------------------------------------------- message_generator
MaxMessageLen == 280
KeptChars == 277
EllipsisLen == 3
NoProfileLen == 37    \* len("N/A - no profile found for this slot.")
FailedLen == 27       \* len("[Message generation failed]")

None == [kind |-> "none"]
NoProfileMessage == [kind |-> "no_profile", len |-> NoProfileLen]
FailedMessage == [kind |-> "failed", len |-> FailedLen]

\* An entry of a list reply: str(msg) is pad characters of surrounding
\* whitespace around n characters, the first and last of which are '"' when
\* quoted (n = 1 and quoted: the text is a single '"').
Entry(id, pad, quoted, n) == [id |-> id, pad |-> pad, quoted |-> quoted, n |-> n]

ReplyEntries ==
    { Entry("a", 0, FALSE, 40),
      Entry("b", 2, TRUE, 282),
      Entry("c", 0, TRUE, 283),
      Entry("d", 1, FALSE, 281),
      Entry("e", 0, TRUE, 1) }

\* What extract_json(raw) gives: a list, another JSON value, or a parse error.
ParsedReplies ==
    {[kind |-> "list", items |-> e] : e \in SeqsUpTo(ReplyEntries, MaxReplyLen)}
        \cup {[kind |-> k, items |-> <<>>] : k \in {"object", "unparsable"}}

\* The replies followed: within a run of main (run_pc is not "idle") a few of them.
ParsedRepliesNow ==
    IF run_pc = "idle" THEN ParsedReplies
    ELSE
    {[kind |-> "list", items |-> <<Entry("a", 0, FALSE, 40)>>],
     [kind |-> "unparsable", items |-> <<>>]}

NoReply == [kind |-> "none", items |-> <<>>]

\* The real candidates a row can hold (one of them bears the sentinel's name),
\* in any order, followed by the sentinels that fill the row.
RealCandidates ==
    { [name |-> "Ann", title |-> "Engineer", url |-> Link("li_a", ""),
       connection_type |-> "peer"],
      [name |-> SentinelName, title |-> "Professional", url |-> Link("li_b", ""),
       connection_type |-> "peer"],
      [name |-> "Unknown", title |-> "Professional", url |-> Link("li_c", ""),
       connection_type |-> "peer"] }

ReferralRows ==
    { r \in [1..NumSlots -> RealCandidates \cup {SentinelCandidate}] :
        /\ \A i, j \in 1..NumSlots :
              (i < j /\ r[i] = SentinelCandidate) => r[j] = SentinelCandidate
        /\ \A i, j \in 1..NumSlots :
              (i # j /\ r[i] = r[j]) => r[i] = SentinelCandidate }

IsPlaceholderByType(person) == person.connection_type = "unknown"
\* person.get("name") == "Could not find profile"
IsPlaceholder(person) == person.name = SentinelName

\* the first loop: placeholder messages, real_profiles and index_map
RECURSIVE Partition(_, _, _)
Partition(refs, i, acc) ==
    IF i > Len(refs) THEN acc
    ELSE IF IsPlaceholder(refs[i])
         THEN Partition(refs, i + 1,
                        [acc EXCEPT !.messages = Append(@, NoProfileMessage)])
         ELSE Partition(refs, i + 1,
                        [messages |-> Append(acc.messages, None),
                         real |-> Append(acc.real, refs[i]),
                         map |-> Append(acc.map, i)])

\* msg.strip(), then msg[1:-1] when msg starts and ends with '"'
StripQuotes(e) == IF e.quoted THEN (IF e.n >= 2 THEN e.n - 2 ELSE 0) ELSE e.n

TruncateAppends(n) == IF n > MaxMessageLen THEN MaxMessageLen + EllipsisLen ELSE n
\* if len(msg) > 280: msg = msg[:277] + "..."
Truncate(n) == IF n > MaxMessageLen THEN KeptChars + EllipsisLen ELSE n

Generated(e) ==
    [kind |-> "generated", id |-> e.id, len |-> Truncate(StripQuotes(e)),
     cut |-> StripQuotes(e) > MaxMessageLen]

SlotOfPosition(map, idx) == idx
\* referral_idx = index_map[idx]
SlotOf(map, idx) == map[idx]

\* for idx, msg in enumerate(parsed): if idx < len(real_profiles): place it
RECURSIVE Place(_, _, _, _, _)
Place(items, idx, nreal, map, msgs) ==
    IF idx > Len(items) THEN msgs
    ELSE IF idx <= nreal
         THEN Place(items, idx + 1, nreal, map,
                    [msgs EXCEPT ![SlotOf(map, idx)] = Generated(items[idx])])
         ELSE Place(items, idx + 1, nreal, map, msgs)

\* the last loop: every slot still None gets the failure placeholder
FillFailedLeavesNone(msgs) == msgs

FillFailed(msgs) ==
    [i \in 1..Len(msgs) |-> IF msgs[i] = None THEN FailedMessage ELSE msgs[i]]

\* Lines 24-37: split the referrals; return at once when none is real.
GmPartition ==
    /\ gm_pc = "start"
    /\ LET p == Partition(gm_referrals, 1, [messages |-> <<>>, real |-> <<>>, map |-> <<>>])
       IN  /\ messages' = p.messages
           /\ real_profiles' = p.real
           /\ index_map' = p.map
           /\ IF p.real = <<>>
              THEN gm_pc' = "done" /\ gm_out' = p.messages
              ELSE gm_pc' = "call" /\ gm_out' = gm_out
    /\ UNCHANGED <<gm_referrals, gm_parsed, gm_log>>
    /\ UNCHANGED notGm

\* call_claude, first attempt (claude_client.py lines 40-46), then extract_json
\* and the placement of the entries (message_generator.py lines 100-113). An
\* APIError leads to the retry; any other exception, from the call or from
\* extract_json, is caught at line 114.
GmCallFirst ==
    /\ gm_pc = "call"
    /\ gm_log' = Append(gm_log, "request")
    /\ \/ /\ gm_pc' = "retry"
          /\ UNCHANGED <<gm_parsed, messages>>
       \/ /\ gm_pc' = "fill"
          /\ UNCHANGED <<gm_parsed, messages>>
       \/ \E parsed \in ParsedRepliesNow :
             /\ gm_parsed' = parsed
             /\ messages' = IF parsed.kind = "list"
                            THEN Place(parsed.items, 1, Len(real_profiles), index_map,
                                       messages)
                            ELSE messages
             /\ gm_pc' = "fill"
    /\ UNCHANGED <<gm_referrals, real_profiles, index_map, gm_out>>
    /\ UNCHANGED notGm

GmCallRetryThenEach ==
    /\ gm_pc = "retry"
    /\ gm_log' = gm_log \o <<"cooldown", "request">>
                    \o [i \in 1..Len(real_profiles) |-> "request"]
    /\ \/ UNCHANGED <<gm_parsed, messages>>
       \/ \E parsed \in ParsedRepliesNow :
             /\ gm_parsed' = parsed
             /\ messages' = IF parsed.kind = "list"
                            THEN Place(parsed.items, 1, Len(real_profiles), index_map,
                                       messages)
                            ELSE messages
    /\ gm_pc' = "fill"
    /\ UNCHANGED <<gm_referrals, real_profiles, index_map, gm_out>>
    /\ UNCHANGED notGm

\* call_claude, the retry after the 5 s sleep (claude_client.py lines 47-55); an
\* exception of the retry is caught at message_generator.py line 114.
GmCallRetry ==
    /\ gm_pc = "retry"
    /\ gm_log' = gm_log \o <<"cooldown", "request">>
    /\ \/ UNCHANGED <<gm_parsed, messages>>
       \/ \E parsed \in ParsedRepliesNow :
             /\ gm_parsed' = parsed
             /\ messages' = IF parsed.kind = "list"
                            THEN Place(parsed.items, 1, Len(real_profiles), index_map,
                                       messages)
                            ELSE messages
    /\ gm_pc' = "fill"
    /\ UNCHANGED <<gm_referrals, real_profiles, index_map, gm_out>>
    /\ UNCHANGED notGm

\* Lines 117-122: fill the slots left None and return.
GmFillAndReturn ==
    /\ gm_pc = "fill"
    /\ messages' = FillFailed(messages)
    /\ gm_out' = messages'
    /\ gm_pc' = "done"
    /\ UNCHANGED <<gm_referrals, real_profiles, index_map, gm_parsed, gm_log>>
    /\ UNCHANGED notGm

GmNext == GmPartition \/ GmCallFirst \/ GmCallRetry \/ GmFillAndReturn

\* --------------------------------------------------------------------- matcher
\* A JSON number, string or null found under "match_percentage"; a float is
\* held in tenths.
PctValues ==
    {[t |-> "int", v |-> v] : v \in {-5, 0, 74, 100, 150}}
        \cup {[t |-> "float", v |-> v] : v \in {-5, 746, 1005}}
        \cup {[t |-> "str", v |-> 74], [t |-> "str", v |-> 150]}
        \cup {[t |-> "text"], [t |-> "null"]}

Absent == [t |-> "absent"]

Filler == "Review the full job description for additional requirements"

\* The value found under "improvements": a list of strings, a string of n
\* characters, or null.
ImprovementValues ==
    {[t |-> "list", items |-> [i \in 1..n |-> "from_service"]] : n \in 0..MaxImprovements}
        \cup {[t |-> "str", n |-> 2], [t |-> "str", n |-> 9], [t |-> "null"]}

\* What json.loads(response_text) gives: an object, another JSON value (an
\* array), or a parse error.
MatchReplies ==
    {[kind |-> "object", pct |-> p, imp |-> m] :
        p \in PctValues \cup {Absent}, m \in ImprovementValues \cup {Absent}}
        \cup {[kind |-> "array"], [kind |-> "unparsable"]}

\* The replies followed: within a run of main (run_pc is not "idle") a few of them.
MatchRepliesNow ==
    IF run_pc = "idle" THEN MatchReplies
    ELSE
    {[kind |-> "object", pct |-> [t |-> "int", v |-> 74],
      imp |-> [t |-> "list", items |-> [i \in 1..3 |-> "from_service"]]],
     [kind |-> "object", pct |-> [t |-> "str", v |-> 74],
      imp |-> [t |-> "list", items |-> [i \in 1..3 |-> "from_service"]]]}

NoResult == [kind |-> "none"]

\* int(x): defined for numbers and numeric strings, truncating toward zero
IntDefined(x) == x.t \in {"int", "float", "str"}
IntOf(x) ==
    IF x.t = "float" THEN (IF x.v < 0 THEN -((-x.v) \div 10) ELSE x.v \div 10) ELSE x.v

Max(a, b) == IF a > b THEN a ELSE b
Min(a, b) == IF a < b THEN a ELSE b

\* len(x): defined for lists and strings
LenDefined(x) == x.t \in {"list", "str"}
LenOf(x) == IF x.t = "list" THEN Len(x.items) ELSE x.n

RECURSIVE Pad(_)
Pad(items) == IF Len(items) < 3 THEN Pad(Append(items, Filler)) ELSE items

\* Lines 66-76, on a parsed reply. [raised |-> TRUE] when a statement raises.
Raised == [raised |-> TRUE, result |-> NoResult]
Validate(reply) ==
    IF reply.kind # "object" THEN Raised
    ELSE LET pct1 == IF reply.pct = Absent THEN [t |-> "int", v |-> 50] ELSE reply.pct
         IN  IF reply.imp # Absent /\ ~LenDefined(reply.imp) THEN Raised
             ELSE IF (reply.imp # Absent /\ LenOf(reply.imp) < 3) /\ reply.imp.t # "list"
             THEN Raised
             ELSE LET imp1 == IF reply.imp = Absent THEN [t |-> "list", items |-> Pad(<<>>)]
                              ELSE IF LenOf(reply.imp) < 3
                                   THEN [t |-> "list", items |-> Pad(reply.imp.items)]
                                   ELSE reply.imp
                  IN  IF ~IntDefined(pct1) THEN Raised
                      ELSE [raised |-> FALSE,
                            result |-> [kind |-> "object",
                                        pct |-> [t |-> "int",
                                                 v |-> Max(0, Min(100, IntOf(pct1)))],
                                        imp |-> imp1]]

\* Lines 78-91: the retry returns json.loads(response_text) as it is.
RetryResult(reply) ==
    IF reply.kind = "unparsable" THEN Raised ELSE [raised |-> FALSE, result |-> reply]

\* match_resume_to_jd, the first attempt (lines 50-76): an APIError of the call
\* leads to the retry, any other exception leaves the function.
MsFirstAttempt ==
    /\ ms_pc = "start"
    /\ ms_log' = Append(ms_log, "request")
    /\ \/ ms_pc' = "retry" /\ UNCHANGED match_result
       \/ ms_pc' = "raised" /\ UNCHANGED match_result
       \/ \E reply \in MatchRepliesNow :
             LET r == Validate(reply)
             IN  /\ ms_pc' = IF r.raised THEN "raised" ELSE "returned"
                 /\ match_result' = r.result
    /\ UNCHANGED <<match_pct, improvements, cell_c, cell_d>>
    /\ UNCHANGED notMs

\* match_resume_to_jd, the retry (lines 78-91).
MsRetry ==
    /\ ms_pc = "retry"
    /\ ms_log' = ms_log \o <<"cooldown", "request">>
    /\ \/ ms_pc' = "raised" /\ UNCHANGED match_result
       \/ \E reply \in MatchRepliesNow :
             LET r == RetryResult(reply)
             IN  /\ ms_pc' = IF r.raised THEN "raised" ELSE "returned"
                 /\ match_result' = r.result
    /\ UNCHANGED <<match_pct, improvements, cell_c, cell_d>>
    /\ UNCHANGED notMs

\* main, lines 87-88: the two .get calls on the result (an array has no .get).
MainReadResult ==
    /\ ms_pc = "returned"
    /\ IF match_result.kind # "object"
       THEN ms_pc' = "row_failed" /\ UNCHANGED <<match_pct, improvements>>
       ELSE /\ match_pct' = IF match_result.pct = Absent THEN [t |-> "int", v |-> 0]
                            ELSE match_result.pct
            /\ improvements' = IF match_result.imp = Absent
                               THEN [t |-> "list", items |-> <<>>]
                               ELSE match_result.imp
            /\ ms_pc' = "read"
    /\ UNCHANGED <<match_result, ms_log, cell_c, cell_d>>
    /\ UNCHANGED notMs

\* match_pct >= 70 is defined for numbers only
Comparable(x) == x.t \in {"int", "float"}

\* "\n".join(improvements) for a list, str(improvements) otherwise
ImprovementsText(imp) ==
    IF imp.t = "list" THEN [t |-> "lines", entries |-> imp.items]
    ELSE [t |-> "lines", entries |-> <<"str_of_value">>]

\* main, lines 91-112, once the referrals and the messages of the row are there:
\* the writer sets the cells as write_results does (excel_handler.py lines
\* 189-226) and saves; an exception before the save (the percentage cannot be
\* compared with 70) leaves the saved tracker as it was.
MainWriteResults ==
    /\ ms_pc = "read"
    /\ IF Comparable(match_pct)
       THEN /\ cell_c' = "pct_text"
            /\ cell_d' = ImprovementsText(improvements)
            /\ ms_pc' = "persisted"
       ELSE /\ ms_pc' = "row_failed"
            /\ UNCHANGED <<cell_c, cell_d>>
    /\ UNCHANGED <<match_result, ms_log, match_pct, improvements>>
    /\ UNCHANGED notMs

MsNext == MsFirstAttempt \/ MsRetry \/ MainReadResult \/ MainWriteResults

\* ------------------------------------------------------------------- jd_parser
JdFields ==
    {"job_title", "company_name", "location", "required_skills", "preferred_skills",
     "experience_required", "key_responsibilities", "domain"}

Defaults ==
    [k \in JdFields |->
        CASE k \in {"job_title", "company_name", "location", "domain"} -> "Unknown"
          [] k \in {"required_skills", "preferred_skills", "key_responsibilities"} -> "[]"
          [] OTHER -> "Not specified"]

\* What json.loads(response_text) gives: an object holding some of the fields,
\* another JSON value (an array), or a parse error.
JdReplies ==
    {[kind |-> "object", fields |-> [k \in present |-> "from_service"]] :
        present \in SUBSET JdFields}
        \cup {[kind |-> "array", fields |-> <<>>], [kind |-> "unparsable", fields |-> <<>>]}

\* The replies followed: within a run of main (run_pc is not "idle") a few of them.
JdRepliesNow ==
    IF run_pc = "idle" THEN JdReplies
    ELSE
    {[kind |-> "object", fields |-> [k \in JdFields |-> "from_service"]],
     [kind |-> "array", fields |-> <<>>]}

NoJd == [kind |-> "none", fields |-> <<>>]

\* Lines 55-70: a missing field gets its default (an array cannot take a key).
Complete(reply) ==
    IF reply.kind # "object" THEN [raised |-> TRUE, result |-> NoJd]
    ELSE [raised |-> FALSE,
          result |-> [kind |-> "object",
                      fields |-> [k \in JdFields |->
                                    IF k \in DOMAIN reply.fields THEN reply.fields[k]
                                    ELSE Defaults[k]]]]

\* Lines 72-86: the retry returns json.loads(response_text) as it is.
JdRetryResult(reply) ==
    IF reply.kind = "unparsable" THEN [raised |-> TRUE, result |-> NoJd]
    ELSE [raised |-> FALSE, result |-> reply]

\* parse_jd, the first attempt (lines 39-70).
JdFirstAttempt ==
    /\ jd_pc = "start"
    /\ jd_log' = Append(jd_log, "request")
    /\ \/ jd_pc' = "retry" /\ UNCHANGED jd_data
       \/ jd_pc' = "raised" /\ UNCHANGED jd_data
       \/ \E reply \in JdRepliesNow :
             LET r == Complete(reply)
             IN  /\ jd_pc' = IF r.raised THEN "raised" ELSE "returned"
                 /\ jd_data' = r.result
    /\ UNCHANGED notJd

JdRetryAgain ==
    /\ jd_pc = "retry"
    /\ jd_log' = jd_log \o <<"cooldown", "request">>
    /\ \/ jd_pc' = (IF Len(jd_log) < 5 THEN "retry" ELSE "raised") /\ UNCHANGED jd_data
       \/ \E reply \in JdRepliesNow :
             LET r == JdRetryResult(reply)
             IN  /\ jd_pc' = IF r.raised THEN "raised" ELSE "returned"
                 /\ jd_data' = r.result
    /\ UNCHANGED notJd

\* parse_jd, the retry (lines 72-86).
JdRetry ==
    /\ jd_pc = "retry"
    /\ jd_log' = jd_log \o <<"cooldown", "request">>
    /\ \/ jd_pc' = "raised" /\ UNCHANGED jd_data
       \/ \E reply \in JdRepliesNow :
             LET r == JdRetryResult(reply)
             IN  /\ jd_pc' = IF r.raised THEN "raised" ELSE "returned"
                 /\ jd_data' = r.result
    /\ UNCHANGED notJd

JdNext == JdFirstAttempt \/ JdRetry

\* --------------------------------------------------------------- excel_handler
\* A cell of the worksheet holds nothing, a text or a number.
NoneCell == [kind |-> "none"]

Text(s) == [kind |-> "text", s |-> s]

Number(n) == [kind |-> "number", n |-> n]

\* texts that str.strip() leaves empty
BlankTexts == {"", " "}

\* bool(value): None, "" and 0 are false
Truthy(cell) ==
    CASE cell.kind = "none" -> FALSE
      [] cell.kind = "text" -> cell.s # ""
      [] cell.kind = "number" -> cell.n # 0

\* bool(str(value).strip()): str(None) is "None", str of a number has digits
StrStripped(cell) ==
    CASE cell.kind = "none" -> TRUE
      [] cell.kind = "text" -> cell.s \notin BlankTexts
      [] cell.kind = "number" -> TRUE

\* `value and str(value).strip()`
Present(cell) == Truthy(cell) /\ StrStripped(cell)

\* read_unprocessed_rows, lines 152-154: the row needs processing
NeedsProcessing(row) ==
    /\ Present(row.a)
    /\ Present(row.b)
    /\ (~Truthy(row.c) \/ ~StrStripped(row.c))

\* data rows start under the header row
FirstDataRow == 2

DataRows == FirstDataRow..(FirstDataRow + MaxTrackerRows - 1)

RowShapes ==
    [a : {NoneCell, Text("https://job")},
     b : {NoneCell, Text(" "), Text("JD body")},
     c : {NoneCell, Text(" "), Number(0), Text("74%")},
     d : {NoneCell},
     refs : {<<>>},
     msgs : {<<>>}]

\* header_ok: the header of column B is "JD Text"
Trackers == [header_ok : BOOLEAN, rows : [DataRows -> RowShapes]]

NoTracker == [header_ok |-> TRUE, rows |-> <<>>]

\* _migrate_columns_if_needed and lines 138-141: a column is inserted at B and
\* the cells from B on move one column right (refs and msgs stand for columns
\* E-J, which only write_results fills)
Migrated(t) ==
    IF t.header_ok THEN t
    ELSE [header_ok |-> TRUE,
          rows |-> [r \in DOMAIN t.rows |->
                      [a |-> t.rows[r].a, b |-> NoneCell,
                       c |-> t.rows[r].b, d |-> t.rows[r].c,
                       refs |-> t.rows[r].refs, msgs |-> t.rows[r].msgs]]]

RECURSIVE RowsFrom(_, _)
\* the loop of lines 146-157 from row r on: the selected row numbers, top to bottom
RowsFrom(t, r) ==
    IF r \notin DOMAIN t.rows THEN <<>>
    ELSE (IF NeedsProcessing(t.rows[r]) THEN <<r>> ELSE <<>>) \o RowsFrom(t, r + 1)

\* the row numbers of the tuples read_unprocessed_rows returns
ReadUnprocessedRows(t) == RowsFrom(Migrated(t), FirstDataRow)

\* f"{match_pct}%": a float is kept in tenths
PctText(p) ==
    CASE p.t = "int" -> ToString(p.v) \o "%"
      [] p.t = "float" ->
            (IF p.v < 0 THEN "-" ELSE "")
                \o ToString((IF p.v < 0 THEN 0 - p.v ELSE p.v) \div 10) \o "."
                \o ToString((IF p.v < 0 THEN 0 - p.v ELSE p.v) % 10) \o "%"
      [] p.t = "str" -> ToString(p.v) \o "%"
      [] p.t = "text" -> "text%"
      [] OTHER -> "None%"

PctCellAsNumber(p) == Number(p.v)

\* write_results, line 191: the value put in the row's "Match %" cell
PctCell(p) == Text(PctText(p))

\* match percentages a run may persist
PctSamples == {[t |-> "int", v |-> v] : v \in {0, 49, 70, 100}}

Range(s) == {s[i] : i \in DOMAIN s}

\* f"{ref['name']} | {ref['title']}\n{ref['url']}"
RefText(ref) == [name |-> ref.name, title |-> ref.title, url |-> ref.url]

\* write_results, line 192: match_pct >= 70 raises TypeError unless match_pct is a number
WriteRaises(results) == ~Comparable(results.pct)

\* write_results, lines 189-229, on the cells of row r
WriteCells(t, r, results) ==
    [t EXCEPT !.rows[r] =
        [@ EXCEPT !.c = PctCell(results.pct),
                  !.d = ImprovementsText(results.imp),
                  !.refs = [i \in 1..NumSlots |->
                              IF i <= Len(results.referrals)
                              THEN RefText(results.referrals[i]) ELSE "No profile found"],
                  !.msgs = [i \in 1..NumSlots |->
                              IF i <= Len(results.messages)
                              THEN results.messages[i] ELSE "N/A"]]]

\* results of a row as main builds them (main.py lines 103-108)
ResultSamples ==
    {[pct |-> p, imp |-> [t |-> "list", items |-> [i \in 1..3 |-> "from_service"]],
      referrals |-> [i \in 1..NumSlots |-> SentinelCandidate],
      messages |-> [i \in 1..NumSlots |-> NoProfileMessage]] : p \in PctSamples}

\* a run calls read_unprocessed_rows (main.py line 36)
StRead ==
    /\ st_pc \in {"ready", "read"}
    /\ tracker' = Migrated(tracker)
    /\ st_selected' = ReadUnprocessedRows(tracker)
    /\ st_done' = {}
    /\ st_pc' = "read"
    /\ UNCHANGED st_persisted
    /\ UNCHANGED notSt

\* the run persists one of the rows it took (main.py line 109)
StWrite ==
    /\ st_pc = "read"
    /\ \E r \in Range(st_selected) \ st_done, results \in ResultSamples :
        /\ tracker' = WriteCells(tracker, r, results)
        /\ st_done' = st_done \cup {r}
        /\ st_persisted' = st_persisted \cup {r}
    /\ UNCHANGED <<st_pc, st_selected>>
    /\ UNCHANGED notSt

StNext == StRead \/ StWrite

\* --------------------------------------------------------------- resume_parser
Mtimes == 1..MaxMtime

\* the resume file: has_text is whether _extract_text_from_pdf returns any text
Pdfs == [exists : BOOLEAN, mtime : Mtimes, has_text : BOOLEAN]

NoPdf == [exists |-> FALSE, mtime |-> 1, has_text |-> FALSE]

NoCache == [state |-> "absent"]

\* resume_parsed.json holding a profile built when the resume had mtime m
CacheOf(m) == [state |-> "file", mtime |-> m]

Caches == {NoCache} \cup {CacheOf(m) : m \in Mtimes}

\* the caches an earlier run can have left beside this resume file: a cache
\* that carries the mtime of the file was built from its text
CachesBeside(pdf) == {c \in Caches : (c.state = "file" /\ c.mtime = pdf.mtime) => pdf.has_text}

CacheNeverValid(c, m) == FALSE

\* lines 171-174: the cache file exists and its "_pdf_mtime" is the file's mtime
CacheValid(c, m) == c.state = "file" /\ c.mtime = m

\* what a call found in the cache
CacheBefore(c, m) ==
    IF c.state = "absent" THEN "absent" ELSE IF c.mtime = m THEN "valid" ELSE "stale"

ParseResumeWritesFirst(pdf, c) ==
    IF ~pdf.exists
    THEN [cache |-> c,
          call |-> [result |-> "not_found", mtime |-> pdf.mtime, before |-> "unread",
                    extracted |-> FALSE, derived |-> FALSE, wrote |-> FALSE]]
    ELSE IF CacheValid(c, pdf.mtime)
    THEN [cache |-> c,
          call |-> [result |-> "returned", mtime |-> pdf.mtime, before |-> "valid",
                    extracted |-> FALSE, derived |-> FALSE, wrote |-> FALSE]]
    ELSE [cache |-> CacheOf(pdf.mtime),
          call |-> [result |-> IF pdf.has_text THEN "returned" ELSE "no_text",
                    mtime |-> pdf.mtime, before |-> CacheBefore(c, pdf.mtime),
                    extracted |-> TRUE, derived |-> pdf.has_text, wrote |-> TRUE]]

\* parse_resume, lines 153-198: the cache it leaves and the record of the call
ParseResume(pdf, c) ==
    IF ~pdf.exists
    THEN [cache |-> c,
          call |-> [result |-> "not_found", mtime |-> pdf.mtime, before |-> "unread",
                    extracted |-> FALSE, derived |-> FALSE, wrote |-> FALSE]]
    ELSE IF CacheValid(c, pdf.mtime)
    THEN [cache |-> c,
          call |-> [result |-> "returned", mtime |-> pdf.mtime, before |-> "valid",
                    extracted |-> FALSE, derived |-> FALSE, wrote |-> FALSE]]
    ELSE IF ~pdf.has_text
    THEN [cache |-> c,
          call |-> [result |-> "no_text", mtime |-> pdf.mtime,
                    before |-> CacheBefore(c, pdf.mtime),
                    extracted |-> TRUE, derived |-> FALSE, wrote |-> FALSE]]
    ELSE [cache |-> CacheOf(pdf.mtime),
          call |-> [result |-> "returned", mtime |-> pdf.mtime,
                    before |-> CacheBefore(c, pdf.mtime),
                    extracted |-> TRUE, derived |-> TRUE, wrote |-> TRUE]]

\* a run calls parse_resume (main.py line 58)
RsCall ==
    /\ rs_pc = "ready"
    /\ Len(rs_calls) < MaxCalls
    /\ cache' = ParseResume(resume_pdf, cache).cache
    /\ rs_calls' = Append(rs_calls, ParseResume(resume_pdf, cache).call)
    /\ UNCHANGED <<rs_pc, resume_pdf>>
    /\ UNCHANGED notRs

\* between two calls the user replaces the resume file
RsReplacePdf ==
    /\ rs_pc = "ready"
    /\ \E m \in Mtimes \ {resume_pdf.mtime}, txt \in BOOLEAN :
        resume_pdf' = [exists |-> TRUE, mtime |-> m, has_text |-> txt]
    /\ UNCHANGED <<rs_pc, cache, rs_calls>>
    /\ UNCHANGED notRs

RsNext == RsCall \/ RsReplacePdf

\* ------------------------------------------------------------------------ main
\* One run of main.py. The calls of parse_jd, match_resume_to_jd,
\* find_referrals and generate_messages are the actions of the sections above:
\* main starts one by setting its position, and goes on when it has returned
\* or raised.

\* the trackers of a run: each row is one the run will take or one an earlier run scored
RunTrackers ==
    [header_ok : {TRUE},
     rows : [DataRows ->
                [a : {Text("https://job")}, b : {Text("JD body")},
                 c : {NoneCell, Text("74%")}, d : {NoneCell}, refs : {<<>>},
                 msgs : {<<>>}]]]

RunPdfs == [exists : BOOLEAN, mtime : {1}, has_text : BOOLEAN]

\* the positions of main inside `with excel_handler.TrackerWriter() as writer`
RowPcs == {"next_row", "interpreting", "scoring", "locating", "composing"}

WriterNeverHolds == FALSE

\* TrackerWriter, between __enter__ and __exit__, holds the tracker file open
\* exclusively: no other application can open it
WriterHolds == run_pc \in RowPcs

CurrentRowFirst == unprocessed[1]
\* the row being processed
CurrentRow == unprocessed[row_i]

\* the last of the requests and sleeps a call made, or what was there before
\* when it made none: "request" when no sleep followed the last request
GapAfter(gap, events) ==
    IF events = <<>> THEN gap
    ELSE IF events[Len(events)] = "request" THEN "request" ELSE "delay"

\* the names main binds in the body of the loop are bound anew in the next row
ResetRow ==
    /\ jd_pc' = "idle" /\ jd_data' = NoJd /\ jd_log' = <<>>
    /\ ms_pc' = "idle" /\ match_result' = NoResult /\ ms_log' = <<>>
    /\ match_pct' = Absent /\ improvements' = Absent
    /\ rf_pc' = "idle" /\ rf_i' = 0 /\ referrals' = <<>> /\ seen_urls' = {}
    /\ rf_log' = <<>> /\ rf_dup' = FALSE /\ rf_found' = <<>> /\ rf_out' = <<>>
    /\ gm_pc' = "idle" /\ gm_referrals' = <<>> /\ messages' = <<>>
    /\ real_profiles' = <<>> /\ index_map' = <<>> /\ gm_parsed' = NoReply
    /\ gm_log' = <<>> /\ gm_out' = <<>>
    /\ UNCHANGED <<cell_c, cell_d, use_serpapi>>

FailRowStopsRun(step) ==
    /\ failed' = Append(failed, [row |-> CurrentRow, at |-> step])
    /\ run_pc' = "summary"
    /\ ResetRow
    /\ UNCHANGED <<tracker, succeeded, run_log>>

FailRowMarksCell(step) ==
    /\ failed' = Append(failed, [row |-> CurrentRow, at |-> step])
    /\ run_pc' = "next_row"
    /\ ResetRow
    /\ tracker' = [tracker EXCEPT !.rows[CurrentRow].c = Text("ERROR")]
    /\ UNCHANGED <<succeeded, run_log>>

\* the except clause of the row (lines 114-116): the row is recorded as failed
\* and the loop goes to the next row
FailRow(step) ==
    /\ failed' = Append(failed, [row |-> CurrentRow, at |-> step])
    /\ run_pc' = "next_row"
    /\ ResetRow
    /\ UNCHANGED <<tracker, succeeded, run_log>>

\* lines 26-31
RunCheckKey ==
    /\ run_pc = "check_key"
    /\ run_pc' = IF api_key THEN "read_rows" ELSE "exit_error"
    /\ UNCHANGED <<api_key, store_locked, unprocessed, row_i, succeeded, failed,
                   tc_called, ps_called>>
    /\ UNCHANGED <<rfVars, gmVars, msVars, jdVars, stVars, rsVars>>
    /\ UNCHANGED <<run_log, tc_gap>>

\* lines 35-51: read_unprocessed_rows raises PermissionError when the file is
\* held by another application
RunReadRows ==
    /\ run_pc = "read_rows"
    /\ IF store_locked
       THEN run_pc' = "exit_error" /\ UNCHANGED <<tracker, unprocessed>>
       ELSE /\ tracker' = Migrated(tracker)
            /\ unprocessed' = ReadUnprocessedRows(tracker)
            /\ run_pc' = IF unprocessed' = <<>> THEN "exit_no_rows" ELSE "parse_resume"
    /\ UNCHANGED <<api_key, store_locked, row_i, succeeded, failed, tc_called, ps_called>>
    /\ UNCHANGED <<st_pc, st_selected, st_done, st_persisted>>
    /\ UNCHANGED <<rfVars, gmVars, msVars, jdVars, rsVars>>
    /\ UNCHANGED <<run_log, tc_gap>>

ResumeLoadedAlways(call) == TRUE

NoDelay == <<>>
\* time.sleep(config.API_CALL_DELAY), lines 83 and 96
ApiCallDelay == <<"sleep">>

\* lines 57-66: parse_resume returned; an exception of it ends the run
ResumeLoaded(call) == call.result = "returned"

\* lines 57-66
RunParseResume ==
    /\ run_pc = "parse_resume"
    /\ LET res == ParseResume(resume_pdf, cache)
       IN  /\ cache' = res.cache
           /\ rs_calls' = Append(rs_calls, res.call)
           /\ run_pc' = IF ResumeLoaded(res.call) THEN "enter_writer" ELSE "exit_error"
    /\ UNCHANGED <<rs_pc, resume_pdf>>
    /\ UNCHANGED <<api_key, store_locked, unprocessed, row_i, succeeded, failed,
                   tc_called, ps_called>>
    /\ UNCHANGED <<rfVars, gmVars, msVars, jdVars, stVars>>
    /\ UNCHANGED <<run_log, tc_gap>>

\* lines 69-72: TrackerWriter.__enter__ opens the tracker; when it cannot, the
\* exception leaves main
RunEnterWriter ==
    /\ run_pc = "enter_writer"
    /\ run_pc' = IF store_locked THEN "aborted" ELSE "next_row"
    /\ UNCHANGED <<api_key, store_locked, unprocessed, row_i, succeeded, failed,
                   tc_called, ps_called>>
    /\ UNCHANGED <<rfVars, gmVars, msVars, jdVars, stVars, rsVars>>
    /\ UNCHANGED <<run_log, tc_gap>>

\* lines 73-78: the next row, if any, and the call of parse_jd; after the last
\* row the with block is left
RunStartRow ==
    /\ run_pc = "next_row"
    /\ IF row_i < Len(unprocessed)
       THEN /\ row_i' = row_i + 1
            /\ run_pc' = "interpreting"
            /\ jd_pc' = "start"
            /\ run_log' = Append(run_log, "parse_jd")
            /\ UNCHANGED <<jd_data, jd_log>>
       ELSE /\ run_pc' = "summary"
            /\ UNCHANGED <<row_i, jdVars, run_log>>
    /\ UNCHANGED tc_gap
    /\ UNCHANGED <<api_key, store_locked, unprocessed, succeeded, failed, tc_called,
                   ps_called>>
    /\ UNCHANGED <<rfVars, gmVars, msVars, stVars, rsVars>>

\* lines 79-86: the two .get calls on jd_data (an array has no .get), the sleep
\* and the call of match_resume_to_jd
RunAfterParseJd ==
    /\ run_pc = "interpreting"
    /\ jd_pc \in {"returned", "raised"}
    /\ tc_called' = TRUE
    /\ IF jd_pc = "raised" \/ jd_data.kind # "object"
       THEN FailRow("interpret") /\ tc_gap' = GapAfter(tc_gap, jd_log)
       ELSE /\ run_pc' = "scoring"
            /\ tc_gap' = GapAfter(tc_gap, jd_log \o ApiCallDelay)
            /\ jd_pc' = "idle"
            /\ jd_log' = <<>>
            /\ ms_pc' = "start"
            /\ run_log' = run_log \o ApiCallDelay \o <<"match_resume_to_jd">>
            /\ UNCHANGED <<jd_data, match_result, ms_log, match_pct, improvements, cell_c,
                           cell_d>>
            /\ UNCHANGED <<rfVars, gmVars, tracker, succeeded, failed>>
    /\ UNCHANGED <<api_key, store_locked, unprocessed, row_i, ps_called>>
    /\ UNCHANGED <<st_pc, st_selected, st_done, st_persisted, rsVars>>

\* main, line 87: match_result.get("match_percentage", 0)
GetPct(result) == IF result.pct = Absent THEN [t |-> "int", v |-> 0] ELSE result.pct

\* main, line 88: match_result.get("improvements", [])
GetImprovements(result) ==
    IF result.imp = Absent THEN [t |-> "list", items |-> <<>>] ELSE result.imp

\* lines 87-92: the two .get calls on match_result and the call of find_referrals
RunAfterMatch ==
    /\ run_pc = "scoring"
    /\ ms_pc \in {"returned", "raised"}
    /\ tc_gap' = GapAfter(tc_gap, ms_log)
    /\ IF ms_pc = "raised" \/ match_result.kind # "object"
       THEN FailRow("score")
       ELSE /\ run_pc' = "locating"
            /\ ms_pc' = "idle"
            /\ ms_log' = <<>>
            /\ match_pct' = GetPct(match_result)
            /\ improvements' = GetImprovements(match_result)
            /\ rf_pc' = "targeted"
            /\ run_log' = Append(run_log, "find_referrals")
            /\ UNCHANGED <<match_result, cell_c, cell_d>>
            /\ UNCHANGED <<use_serpapi, rf_i, referrals, seen_urls, rf_log, rf_dup,
                           rf_found, rf_out>>
            /\ UNCHANGED <<jdVars, gmVars, tracker, succeeded, failed>>
    /\ UNCHANGED <<api_key, store_locked, unprocessed, row_i, tc_called, ps_called>>
    /\ UNCHANGED <<st_pc, st_selected, st_done, st_persisted, rsVars>>

\* lines 93-99: the sleep and the call of generate_messages
RunAfterReferrals ==
    /\ run_pc = "locating"
    /\ rf_pc = "done"
    /\ run_pc' = "composing"
    /\ ps_called' = (ps_called \/ rf_log # <<>>)
    /\ rf_pc' = "idle"
    /\ rf_i' = 0 /\ referrals' = <<>> /\ seen_urls' = {}
    /\ rf_log' = <<>> /\ rf_dup' = FALSE /\ rf_found' = <<>>
    /\ gm_pc' = "start"
    /\ gm_referrals' = rf_out
    /\ run_log' = run_log \o ApiCallDelay \o <<"generate_messages">>
    /\ tc_gap' = GapAfter(tc_gap, ApiCallDelay)
    /\ UNCHANGED <<use_serpapi, rf_out>>
    /\ UNCHANGED <<messages, real_profiles, index_map, gm_parsed, gm_log, gm_out>>
    /\ UNCHANGED <<api_key, store_locked, unprocessed, row_i, succeeded, failed, tc_called>>
    /\ UNCHANGED <<msVars, jdVars, stVars, rsVars>>

\* main, lines 103-108
Results == [pct |-> match_pct, imp |-> improvements, referrals |-> rf_out, messages |-> gm_out]

\* lines 100-112: writer.write_results sets the cells of the row and saves the
\* tracker; then the row is appended to succeeded
RunAfterMessages ==
    /\ run_pc = "composing"
    /\ gm_pc = "done"
    /\ tc_gap' = GapAfter(tc_gap, gm_log)
    /\ IF store_locked
       THEN FailRow("store_unavailable")
       ELSE IF WriteRaises(Results)
       THEN FailRow("persist")
       ELSE /\ tracker' = WriteCells(tracker, CurrentRow, Results)
            /\ succeeded' = Append(succeeded, CurrentRow)
            /\ run_pc' = "next_row"
            /\ run_log' = Append(run_log, "write_results")
            /\ ResetRow
            /\ UNCHANGED failed
    /\ UNCHANGED <<api_key, store_locked, unprocessed, row_i, tc_called, ps_called>>
    /\ UNCHANGED <<st_pc, st_selected, st_done, st_persisted, rsVars>>

\* lines 118-134
RunSummary ==
    /\ run_pc = "summary"
    /\ run_pc' = "done"
    /\ UNCHANGED <<api_key, store_locked, unprocessed, row_i, succeeded, failed,
                   tc_called, ps_called>>
    /\ UNCHANGED <<rfVars, gmVars, msVars, jdVars, stVars, rsVars>>
    /\ UNCHANGED <<run_log, tc_gap>>

\* another application opens the tracker file, or closes it; it cannot open
\* the file while the writer holds it
ExternalHold ==
    /\ run_pc \notin {"idle", "done", "exit_error", "exit_no_rows", "aborted"}
    /\ store_locked \/ ~WriterHolds
    /\ store_locked' = ~store_locked
    /\ UNCHANGED <<run_pc, api_key, unprocessed, row_i, succeeded, failed, tc_called,
                   ps_called>>
    /\ UNCHANGED <<rfVars, gmVars, msVars, jdVars, stVars, rsVars>>
    /\ UNCHANGED <<run_log, tc_gap>>

RunNext ==
    \/ RunCheckKey \/ RunReadRows \/ RunParseResume \/ RunEnterWriter \/ RunStartRow
    \/ RunAfterParseJd \/ RunAfterMatch \/ RunAfterReferrals \/ RunAfterMessages
    \/ RunSummary \/ ExternalHold
    \/ JdFirstAttempt \/ JdRetry \/ MsFirstAttempt \/ MsRetry
    \/ RfTargetedSearch \/ RfFallback \/ RfFillAndReturn
    \/ GmPartition \/ GmCallFirst \/ GmCallRetry \/ GmFillAndReturn

\* ------------------------------------------------------------- specifications
\* Each specification runs one part of the program: the variables of the other
\* parts stay at their idle values.
\* find_referrals is entered (lines 118-124)
InitReferrals ==
    /\ use_serpapi \in BOOLEAN
    /\ rf_pc = "targeted"
    /\ rf_i = 0
    /\ referrals = <<>>
    /\ seen_urls = {}
    /\ rf_log = <<>>
    /\ rf_dup = FALSE
    /\ rf_found = <<>>
    /\ rf_out = <<>>
    /\ gm_pc = "idle"
    /\ gm_referrals = <<>>
    /\ messages = <<>>
    /\ real_profiles = <<>>
    /\ index_map = <<>>
    /\ gm_parsed = NoReply
    /\ gm_log = <<>>
    /\ gm_out = <<>>
    /\ ms_pc = "idle"
    /\ match_result = NoResult
    /\ ms_log = <<>>
    /\ match_pct = Absent
    /\ improvements = Absent
    /\ cell_c = "empty"
    /\ cell_d = [t |-> "empty"]
    /\ jd_pc = "idle"
    /\ jd_data = NoJd
    /\ jd_log = <<>>
    /\ tracker = NoTracker
    /\ st_pc = "idle"
    /\ st_selected = <<>>
    /\ st_done = {}
    /\ st_persisted = {}
    /\ rs_pc = "idle"
    /\ resume_pdf = NoPdf
    /\ cache = NoCache
    /\ rs_calls = <<>>
    /\ run_pc = "idle"
    /\ api_key = FALSE
    /\ store_locked = FALSE
    /\ unprocessed = <<>>
    /\ row_i = 0
    /\ succeeded = <<>>
    /\ failed = <<>>
    /\ tc_called = FALSE
    /\ ps_called = FALSE
    /\ run_log = <<>>
    /\ tc_gap = "none"

\* generate_messages is entered with a row find_referrals returned
InitMessages ==
    /\ use_serpapi = FALSE
    /\ rf_pc = "idle"
    /\ rf_i = 0
    /\ referrals = <<>>
    /\ seen_urls = {}
    /\ rf_log = <<>>
    /\ rf_dup = FALSE
    /\ rf_found = <<>>
    /\ rf_out = <<>>
    /\ gm_pc = "start"
    /\ gm_referrals \in ReferralRows
    /\ messages = <<>>
    /\ real_profiles = <<>>
    /\ index_map = <<>>
    /\ gm_parsed = NoReply
    /\ gm_log = <<>>
    /\ gm_out = <<>>
    /\ ms_pc = "idle"
    /\ match_result = NoResult
    /\ ms_log = <<>>
    /\ match_pct = Absent
    /\ improvements = Absent
    /\ cell_c = "empty"
    /\ cell_d = [t |-> "empty"]
    /\ jd_pc = "idle"
    /\ jd_data = NoJd
    /\ jd_log = <<>>
    /\ tracker = NoTracker
    /\ st_pc = "idle"
    /\ st_selected = <<>>
    /\ st_done = {}
    /\ st_persisted = {}
    /\ rs_pc = "idle"
    /\ resume_pdf = NoPdf
    /\ cache = NoCache
    /\ rs_calls = <<>>
    /\ run_pc = "idle"
    /\ api_key = FALSE
    /\ store_locked = FALSE
    /\ unprocessed = <<>>
    /\ row_i = 0
    /\ succeeded = <<>>
    /\ failed = <<>>
    /\ tc_called = FALSE
    /\ ps_called = FALSE
    /\ run_log = <<>>
    /\ tc_gap = "none"

\* match_resume_to_jd is entered for a row
InitMatcher ==
    /\ use_serpapi = FALSE
    /\ rf_pc = "idle"
    /\ rf_i = 0
    /\ referrals = <<>>
    /\ seen_urls = {}
    /\ rf_log = <<>>
    /\ rf_dup = FALSE
    /\ rf_found = <<>>
    /\ rf_out = <<>>
    /\ gm_pc = "idle"
    /\ gm_referrals = <<>>
    /\ messages = <<>>
    /\ real_profiles = <<>>
    /\ index_map = <<>>
    /\ gm_parsed = NoReply
    /\ gm_log = <<>>
    /\ gm_out = <<>>
    /\ ms_pc = "start"
    /\ match_result = NoResult
    /\ ms_log = <<>>
    /\ match_pct = Absent
    /\ improvements = Absent
    /\ cell_c = "empty"
    /\ cell_d = [t |-> "empty"]
    /\ jd_pc = "idle"
    /\ jd_data = NoJd
    /\ jd_log = <<>>
    /\ tracker = NoTracker
    /\ st_pc = "idle"
    /\ st_selected = <<>>
    /\ st_done = {}
    /\ st_persisted = {}
    /\ rs_pc = "idle"
    /\ resume_pdf = NoPdf
    /\ cache = NoCache
    /\ rs_calls = <<>>
    /\ run_pc = "idle"
    /\ api_key = FALSE
    /\ store_locked = FALSE
    /\ unprocessed = <<>>
    /\ row_i = 0
    /\ succeeded = <<>>
    /\ failed = <<>>
    /\ tc_called = FALSE
    /\ ps_called = FALSE
    /\ run_log = <<>>
    /\ tc_gap = "none"

\* parse_jd is entered for a row
InitJdParser ==
    /\ use_serpapi = FALSE
    /\ rf_pc = "idle"
    /\ rf_i = 0
    /\ referrals = <<>>
    /\ seen_urls = {}
    /\ rf_log = <<>>
    /\ rf_dup = FALSE
    /\ rf_found = <<>>
    /\ rf_out = <<>>
    /\ gm_pc = "idle"
    /\ gm_referrals = <<>>
    /\ messages = <<>>
    /\ real_profiles = <<>>
    /\ index_map = <<>>
    /\ gm_parsed = NoReply
    /\ gm_log = <<>>
    /\ gm_out = <<>>
    /\ ms_pc = "idle"
    /\ match_result = NoResult
    /\ ms_log = <<>>
    /\ match_pct = Absent
    /\ improvements = Absent
    /\ cell_c = "empty"
    /\ cell_d = [t |-> "empty"]
    /\ jd_pc = "start"
    /\ jd_data = NoJd
    /\ jd_log = <<>>
    /\ tracker = NoTracker
    /\ st_pc = "idle"
    /\ st_selected = <<>>
    /\ st_done = {}
    /\ st_persisted = {}
    /\ rs_pc = "idle"
    /\ resume_pdf = NoPdf
    /\ cache = NoCache
    /\ rs_calls = <<>>
    /\ run_pc = "idle"
    /\ api_key = FALSE
    /\ store_locked = FALSE
    /\ unprocessed = <<>>
    /\ row_i = 0
    /\ succeeded = <<>>
    /\ failed = <<>>
    /\ tc_called = FALSE
    /\ ps_called = FALSE
    /\ run_log = <<>>
    /\ tc_gap = "none"

\* a tracker file as the user left it, before a run reads it
InitStore ==
    /\ use_serpapi = FALSE
    /\ rf_pc = "idle"
    /\ rf_i = 0
    /\ referrals = <<>>
    /\ seen_urls = {}
    /\ rf_log = <<>>
    /\ rf_dup = FALSE
    /\ rf_found = <<>>
    /\ rf_out = <<>>
    /\ gm_pc = "idle"
    /\ gm_referrals = <<>>
    /\ messages = <<>>
    /\ real_profiles = <<>>
    /\ index_map = <<>>
    /\ gm_parsed = NoReply
    /\ gm_log = <<>>
    /\ gm_out = <<>>
    /\ ms_pc = "idle"
    /\ match_result = NoResult
    /\ ms_log = <<>>
    /\ match_pct = Absent
    /\ improvements = Absent
    /\ cell_c = "empty"
    /\ cell_d = [t |-> "empty"]
    /\ jd_pc = "idle"
    /\ jd_data = NoJd
    /\ jd_log = <<>>
    /\ tracker \in Trackers
    /\ st_pc = "ready"
    /\ st_selected = <<>>
    /\ st_done = {}
    /\ st_persisted = {}
    /\ rs_pc = "idle"
    /\ resume_pdf = NoPdf
    /\ cache = NoCache
    /\ rs_calls = <<>>
    /\ run_pc = "idle"
    /\ api_key = FALSE
    /\ store_locked = FALSE
    /\ unprocessed = <<>>
    /\ row_i = 0
    /\ succeeded = <<>>
    /\ failed = <<>>
    /\ tc_called = FALSE
    /\ ps_called = FALSE
    /\ run_log = <<>>
    /\ tc_gap = "none"

\* a resume and whatever cache an earlier run left, before parse_resume
InitResume ==
    /\ use_serpapi = FALSE
    /\ rf_pc = "idle"
    /\ rf_i = 0
    /\ referrals = <<>>
    /\ seen_urls = {}
    /\ rf_log = <<>>
    /\ rf_dup = FALSE
    /\ rf_found = <<>>
    /\ rf_out = <<>>
    /\ gm_pc = "idle"
    /\ gm_referrals = <<>>
    /\ messages = <<>>
    /\ real_profiles = <<>>
    /\ index_map = <<>>
    /\ gm_parsed = NoReply
    /\ gm_log = <<>>
    /\ gm_out = <<>>
    /\ ms_pc = "idle"
    /\ match_result = NoResult
    /\ ms_log = <<>>
    /\ match_pct = Absent
    /\ improvements = Absent
    /\ cell_c = "empty"
    /\ cell_d = [t |-> "empty"]
    /\ jd_pc = "idle"
    /\ jd_data = NoJd
    /\ jd_log = <<>>
    /\ tracker = NoTracker
    /\ st_pc = "idle"
    /\ st_selected = <<>>
    /\ st_done = {}
    /\ st_persisted = {}
    /\ rs_pc = "ready"
    /\ resume_pdf \in Pdfs
    /\ cache \in CachesBeside(resume_pdf)
    /\ rs_calls = <<>>
    /\ run_pc = "idle"
    /\ api_key = FALSE
    /\ store_locked = FALSE
    /\ unprocessed = <<>>
    /\ row_i = 0
    /\ succeeded = <<>>
    /\ failed = <<>>
    /\ tc_called = FALSE
    /\ ps_called = FALSE
    /\ run_log = <<>>
    /\ tc_gap = "none"

\* main is entered: the environment of the run
InitRun ==
    /\ use_serpapi = FALSE
    /\ rf_pc = "idle"
    /\ rf_i = 0
    /\ referrals = <<>>
    /\ seen_urls = {}
    /\ rf_log = <<>>
    /\ rf_dup = FALSE
    /\ rf_found = <<>>
    /\ rf_out = <<>>
    /\ gm_pc = "idle"
    /\ gm_referrals = <<>>
    /\ messages = <<>>
    /\ real_profiles = <<>>
    /\ index_map = <<>>
    /\ gm_parsed = NoReply
    /\ gm_log = <<>>
    /\ gm_out = <<>>
    /\ ms_pc = "idle"
    /\ match_result = NoResult
    /\ ms_log = <<>>
    /\ match_pct = Absent
    /\ improvements = Absent
    /\ cell_c = "empty"
    /\ cell_d = [t |-> "empty"]
    /\ jd_pc = "idle"
    /\ jd_data = NoJd
    /\ jd_log = <<>>
    /\ tracker \in RunTrackers
    /\ st_pc = "idle"
    /\ st_selected = <<>>
    /\ st_done = {}
    /\ st_persisted = {}
    /\ rs_pc = "idle"
    /\ resume_pdf \in RunPdfs
    /\ cache \in CachesBeside(resume_pdf)
    /\ rs_calls = <<>>
    /\ run_pc = "check_key"
    /\ api_key \in BOOLEAN
    /\ store_locked \in BOOLEAN
    /\ unprocessed = <<>>
    /\ row_i = 0
    /\ succeeded = <<>>
    /\ failed = <<>>
    /\ tc_called = FALSE
    /\ ps_called = FALSE
    /\ run_log = <<>>
    /\ tc_gap = "none"

SpecReferrals == InitReferrals /\ [][RfNext]_vars

SpecMessages == InitMessages /\ [][GmNext]_vars

SpecMatcher == InitMatcher /\ [][MsNext]_vars

SpecJdParser == InitJdParser /\ [][JdNext]_vars

SpecStore == InitStore /\ [][StNext]_vars

SpecResume == InitResume /\ [][RsNext]_vars

SpecRun == InitRun /\ [][RunNext]_vars

\* ----------------------------------------------------------------- properties
IsSentinelName(c) == c.name = SentinelName

\* C1: whatever the Profile Search Service does on each search (results, no
\* results, a failure), find_referrals leaves by its return statement, never by
\* an exception, and the list it returns holds exactly 3 candidates.
C1_ReturnsExactlyThree ==
    /\ rf_pc \in {"targeted", "fallback", "fill", "done"}
    /\ rf_pc = "done" => Len(rf_out) = 3

\* a return with one real candidate followed by sentinels
C1_Witness ==
    /\ rf_pc = "done"
    /\ Len(rf_out) = 3
    /\ ~IsSentinelName(rf_out[1])
    /\ rf_out[2] = SentinelCandidate
    /\ rf_out[3] = SentinelCandidate

\* C2: in a returned list the non-sentinel candidates have pairwise distinct
\* URLs, and no candidate named "Could not find profile" has the URL of a
\* non-sentinel candidate.
C2_NonSentinelUrlsDistinct ==
    rf_pc = "done" =>
        \A i, j \in 1..Len(rf_out) :
            (i # j /\ ~IsSentinelName(rf_out[j])) => rf_out[i].url # rf_out[j].url

\* a return after a profile URL came back a second time and was skipped, holding
\* real candidates and a sentinel
C2_Witness ==
    /\ rf_pc = "done"
    /\ rf_dup
    /\ ~IsSentinelName(rf_out[1])
    /\ ~IsSentinelName(rf_out[2])
    /\ rf_out[3] = SentinelCandidate

\* C3 as stated: the URLs of all 3 returned candidates are pairwise unique.
C3_AllUrlsUnique ==
    rf_pc = "done" =>
        \A i, j \in 1..Len(rf_out) : i # j => rf_out[i].url # rf_out[j].url

\* C3 amended: two returned candidates have the same URL only if both are
\* sentinels added by the fill step (they all carry the one manual-search URL).
C3_UrlsUniqueExceptFill ==
    rf_pc = "done" =>
        \A i, j \in 1..Len(rf_out) :
            (i # j /\ rf_out[i].url = rf_out[j].url)
                => (rf_out[i] = SentinelCandidate /\ rf_out[j] = SentinelCandidate)

\* a return with a real candidate and two fill sentinels sharing their URL
C3_Witness ==
    /\ rf_pc = "done"
    /\ rf_out[1].url.base \in ProfileBases
    /\ rf_out[2] = SentinelCandidate
    /\ rf_out[3] = SentinelCandidate
    /\ rf_out[2].url = rf_out[3].url

\* the number of non-sentinel candidates among the first i
RealRank(refs, i) == Cardinality({j \in 1..i : refs[j].name # SentinelName})

\* C4: generate_messages returns one message per candidate, and a generated
\* message in slot i is the processed k-th entry of the list reply, where
\* candidate i is the k-th non-sentinel candidate.
C4_OnePerCandidateInOrder ==
    gm_pc = "done" =>
        /\ Len(gm_out) = Len(gm_referrals)
        /\ \A i \in 1..Len(gm_out) :
              /\ gm_out[i].kind \in {"generated", "no_profile", "failed"}
              /\ gm_out[i].kind = "generated" =>
                    /\ gm_referrals[i].name # SentinelName
                    /\ gm_parsed.kind = "list"
                    /\ RealRank(gm_referrals, i) <= Len(gm_parsed.items)
                    /\ gm_out[i].id = gm_parsed.items[RealRank(gm_referrals, i)].id

\* a list reply longer than the number of real candidates, whose first entry
\* went to the second slot because the first candidate bears the sentinel name
C4_Witness ==
    /\ gm_pc = "done"
    /\ gm_referrals[1].name = SentinelName
    /\ gm_referrals[2].name # SentinelName
    /\ gm_parsed.kind = "list"
    /\ Len(gm_parsed.items) > Len(real_profiles)
    /\ gm_out[2].kind = "generated"
    /\ gm_out[2].id = gm_parsed.items[1].id

\* C5: every returned message is at most 280 characters long.
C5_MessagesAtMost280 ==
    gm_pc = "done" => \A i \in 1..Len(gm_out) : gm_out[i].len <= 280

\* a return holding a message that was cut, with both placeholders
C5_Witness ==
    /\ gm_pc = "done"
    /\ \E i \in 1..Len(gm_out) : gm_out[i].kind = "generated" /\ gm_out[i].cut
                                    /\ gm_out[i].len = 280
    /\ \E i \in 1..Len(gm_out) : gm_out[i] = NoProfileMessage
    /\ \E i \in 1..Len(gm_out) : gm_out[i] = FailedMessage

\* C6: the slot of a sentinel candidate holds the fixed placeholder in the
\* returned list, and no sentinel candidate is among the profiles of the request.
C6_SentinelSlotsFixed ==
    /\ \A k \in 1..Len(real_profiles) : real_profiles[k].name # SentinelName
    /\ gm_pc = "done" =>
          \A i \in 1..Len(gm_out) :
              gm_referrals[i].name = SentinelName
                  => (gm_out[i].kind = "no_profile" /\ gm_out[i].len = 37)

\* a return after a list reply with more entries than real candidates, with a
\* sentinel slot holding the placeholder
C6_Witness ==
    /\ gm_pc = "done"
    /\ gm_parsed.kind = "list"
    /\ Len(gm_parsed.items) = 3
    /\ Len(real_profiles) = 1
    /\ gm_referrals[1].name = SentinelName
    /\ gm_out[1] = NoProfileMessage
    /\ gm_out[2].kind = "generated"

\* C7: a value returned by match_resume_to_jd holds an integer match percentage
\* between 0 and 100.
C7_PercentageInRange ==
    ms_pc = "returned" =>
        /\ match_result.kind = "object"
        /\ match_result.pct # Absent
        /\ match_result.pct.t = "int"
        /\ match_result.pct.v \in 0..100

\* C8: a value returned by match_resume_to_jd holds an improvements list of at
\* least 3 entries.
C8_AtLeastThreeImprovements ==
    ms_pc = "returned" =>
        /\ match_result.kind = "object"
        /\ match_result.imp # Absent
        /\ LenDefined(match_result.imp)
        /\ LenOf(match_result.imp) >= 3

\* C9: the improvements cell of a persisted row holds exactly 3 entries.
C9_ExactlyThreeWritten ==
    ms_pc = "persisted" => Len(cell_d.entries) = 3

\* C10: a value returned by parse_jd holds all 8 fields.
C10_AllFieldsPresent ==
    jd_pc = "returned" =>
        /\ jd_data.kind = "object"
        /\ DOMAIN jd_data.fields = JdFields

\* a cell that holds a value: anything but an empty cell or a text of blanks
HoldsValue(cell) == cell.kind # "none" /\ ~(cell.kind = "text" /\ cell.s \in BlankTexts)

\* C13: read_unprocessed_rows selects a data row if and only if its job-link
\* cell holds a value, its JD-text cell holds a value and its match-percentage
\* cell holds none; a row whose match-percentage cell holds any value, text or
\* number, the number 0 included, is not selected.
C13_SelectsExactlyUnscoredRows ==
    (st_pc = "read" /\ st_done = {}) =>
        \A r \in DOMAIN tracker.rows :
            (r \in Range(st_selected)) <=>
                /\ HoldsValue(tracker.rows[r].a)
                /\ HoldsValue(tracker.rows[r].b)
                /\ ~HoldsValue(tracker.rows[r].c)

\* C14: a row write_results completed for, with any match percentage, is not
\* among the rows a later read_unprocessed_rows returns.
C14_PersistedNeverReselected ==
    \A r \in Range(st_selected) : r \in st_persisted => r \in st_done

C14_Witness ==
    /\ st_pc = "read"
    /\ st_done = {}
    /\ \E r \in st_persisted :
        /\ tracker.rows[r].c = PctCell([t |-> "int", v |-> 0])
        /\ r \notin Range(st_selected)
    /\ st_selected # <<>>

\* parse_resume found the resume file in call i
Found(i) == rs_calls[i].result # "not_found"

\* text extractions performed by calls i and i + 1 together
ExtractionsOfPair(i) ==
    (IF rs_calls[i].extracted THEN 1 ELSE 0) + (IF rs_calls[i + 1].extracted THEN 1 ELSE 0)

\* what C15 says of the calls i and i + 1 (and of the call after them)
RebuildsOnlyOnChange(i) ==
    /\ rs_calls[i].mtime = rs_calls[i + 1].mtime =>
        /\ ExtractionsOfPair(i) <= 1
        /\ rs_calls[i].before # "valid" => ExtractionsOfPair(i) = 1
    /\ rs_calls[i].mtime # rs_calls[i + 1].mtime =>
        /\ rs_calls[i + 1].before # "valid" =>
            /\ rs_calls[i + 1].extracted
            /\ rs_calls[i + 1].derived
            /\ rs_calls[i + 1].wrote
        /\ (i + 2 \in DOMAIN rs_calls /\ Found(i + 2)
                /\ rs_calls[i + 2].mtime = rs_calls[i + 1].mtime) =>
            ~rs_calls[i + 2].extracted

YieldsText(i) == rs_calls[i].result = "returned"

FailedRows == {failed[i].row : i \in DOMAIN failed}

\* the step records the failure of the current row and leaves its cells alone
RowFails ==
    /\ run_pc' = "next_row"
    /\ Len(failed') = Len(failed) + 1
    /\ failed'[Len(failed')].row = CurrentRow
    /\ succeeded' = succeeded
    /\ tracker' = tracker

\* the step saves the cells of the current row and records it as succeeded
RowPersists ==
    /\ run_pc' = "next_row"
    /\ succeeded' = Append(succeeded, CurrentRow)
    /\ failed' = failed
    /\ tracker'.rows[CurrentRow].c = PctCell(match_pct)
    /\ \A r \in DOMAIN tracker.rows \ {CurrentRow} : tracker'.rows[r] = tracker.rows[r]

\* from each state of a row main goes to the next state or to the failure of the row
RowStepInOrder ==
    /\ (run_pc = "next_row" /\ run_pc' # run_pc) =>
            \/ row_i < Len(unprocessed) /\ run_pc' = "interpreting" /\ row_i' = row_i + 1
            \/ row_i = Len(unprocessed) /\ run_pc' = "summary" /\ row_i' = row_i
    /\ (run_pc = "interpreting" /\ run_pc' # run_pc) => (run_pc' = "scoring" \/ RowFails)
    /\ (run_pc = "scoring" /\ run_pc' # run_pc) => (run_pc' = "locating" \/ RowFails)
    /\ (run_pc = "locating" /\ run_pc' # run_pc) => (run_pc' = "composing" \/ RowFails)
    /\ (run_pc = "composing" /\ run_pc' # run_pc) => (RowPersists \/ RowFails)
    /\ run_pc # "next_row" => row_i' = row_i
    /\ run_pc \in RowPcs => unprocessed' = unprocessed

\* a function of another state of the row is at work only in its own state
OnlyTheCurrentState ==
    /\ jd_pc # "idle" => run_pc = "interpreting"
    /\ ms_pc # "idle" => run_pc = "scoring"
    /\ rf_pc # "idle" => run_pc = "locating"
    /\ gm_pc # "idle" => run_pc = "composing"

\* the rows are taken top to bottom, and the rows finished are those before the current one
RowsTopToBottom ==
    /\ \A i, j \in DOMAIN unprocessed : i < j => unprocessed[i] < unprocessed[j]
    /\ run_pc \in RowPcs \cup {"summary", "done"} =>
        /\ Range(succeeded) \cup FailedRows =
              {unprocessed[i] : i \in 1..(IF run_pc \in {"next_row", "summary", "done"}
                                          THEN row_i ELSE row_i - 1)}
        /\ Range(succeeded) \cap FailedRows = {}
    /\ run_pc \in {"summary", "done"} => row_i = Len(unprocessed)

\* C11: every row goes through Interpreting, Scoring, LocatingReferrals,
\* Composing and Persisted in this order, one row being finished before the
\* next one starts and the rows being taken top to bottom; a failure in any of
\* these states makes the row Failed without any later state being performed,
\* and the rows after it are still processed.
C11_RowsInOrderAndIsolated ==
    [][RowStepInOrder /\ OnlyTheCurrentState' /\ RowsTopToBottom']_vars

C11_Witness ==
    /\ run_pc = "done"
    /\ Len(failed) = 1
    /\ failed[1].at = "interpret"
    /\ Len(succeeded) = 1
    /\ failed[1].row < succeeded[1]

\* generate_messages has returned for the current row
CompositionComplete == run_pc = "composing" /\ gm_pc = "done"

\* C12: a row whose composition completed is persisted exactly once, and
\* this before the next row starts; the persisted cells of a row are not changed
\* by what happens to a later row.
C12_PersistedOnceBeforeNext ==
    [][/\ (CompositionComplete /\ run_pc' # run_pc) =>
            (RowPersists /\ CurrentRow \notin Range(succeeded))
       /\ \A r \in Range(succeeded) : tracker'.rows[r] = tracker.rows[r]]_vars

\* the run has made a request to the Text Completion Service
TcRequested == tc_called \/ jd_log # <<>> \/ ms_log # <<>> \/ gm_log # <<>>

\* the run has made a request to the Profile Search Service
PsRequested == ps_called \/ rf_log # <<>>

\* the positions of main before the first row, and those where the run ended early
BeforeRows == {"check_key", "read_rows", "parse_resume", "enter_writer"}

EarlyExits == {"exit_error", "exit_no_rows", "aborted"}

\* nothing of any row has been done
NoRowWork ==
    /\ ~TcRequested
    /\ ~PsRequested
    /\ row_i = 0
    /\ succeeded = <<>> /\ failed = <<>>
    /\ jd_pc = "idle" /\ ms_pc = "idle" /\ rf_pc = "idle" /\ gm_pc = "idle"

\* a missing precondition ends the run at the step that checks it
PreconditionEndsRun ==
    /\ (run_pc = "check_key" /\ ~api_key /\ run_pc' # run_pc) => run_pc' = "exit_error"
    /\ (run_pc = "read_rows" /\ store_locked /\ run_pc' # run_pc) => run_pc' = "exit_error"
    /\ (run_pc = "parse_resume" /\ (~resume_pdf.exists \/ ~resume_pdf.has_text)
            /\ run_pc' # run_pc) => run_pc' = "exit_error"
    /\ (run_pc = "enter_writer" /\ store_locked /\ run_pc' # run_pc) => run_pc' = "aborted"
    /\ run_pc \in EarlyExits => run_pc' = run_pc

\* C16: with the credentials missing, the tracker not openable, or the resume
\* missing or without extractable text, the run ends before any work on a row:
\* no request to the Text Completion Service and none to the Profile Search
\* Service is made; and the resume profile is built or loaded at most once in a
\* run, before the first row is interpreted.
C16_PreconditionsBeforeRows ==
    [][/\ PreconditionEndsRun
       /\ (run_pc' \in BeforeRows \cup EarlyExits => NoRowWork')
       /\ Len(rs_calls') <= 1
       /\ (run_pc' \in RowPcs => Len(rs_calls') = 1)
       /\ (rs_calls' # rs_calls => run_pc = "parse_resume")]_vars

C16_Witness ==
    /\ run_pc = "exit_error"
    /\ api_key
    /\ Len(rs_calls) = 1
    /\ rs_calls[1].result = "no_text"
    /\ NoRowWork

NoRealCandidate == \A i \in DOMAIN rf_out : IsSentinelName(rf_out[i])

\* find_referrals found fewer than 3 real candidates for the current row
FewerThanThreeReal == \E i \in DOMAIN rf_out : IsSentinelName(rf_out[i])

\* slot i holds a real candidate the service gave no message for: the call
\* failed, the reply was not a list, or the list was too short
NoEntryFor(i) ==
    /\ ~IsSentinelName(rf_out[i])
    /\ (gm_parsed.kind # "list" \/ RealRank(rf_out, i) > Len(gm_parsed.items))

\* message generation failed, or its reply was malformed or too short
GenerationFailed == \E i \in DOMAIN rf_out : NoEntryFor(i)

\* message generation failed for the whole row: no usable reply at all
GenerationFailedTotally == ~NoRealCandidate /\ gm_parsed.kind # "list"

\* the saved cells of the current row hold a sentinel candidate and a
\* placeholder message in every slot without a real candidate or a message
DegradedCellsSaved ==
    \A i \in 1..NumSlots :
        /\ IsSentinelName(rf_out[i]) =>
                /\ tracker'.rows[CurrentRow].refs[i] = RefText(SentinelCandidate)
                /\ tracker'.rows[CurrentRow].msgs[i] = NoProfileMessage
        /\ NoEntryFor(i) => tracker'.rows[CurrentRow].msgs[i] = FailedMessage

\* C18: a degraded outcome is never a failure of the row: with fewer than 3
\* real candidates found, or with message generation failed, the row whose
\* interpretation and scoring returned is persisted, with sentinel candidates
\* and placeholder messages in the slots concerned.
C18_DegradedRowPersisted ==
    [][(CompositionComplete /\ (FewerThanThreeReal \/ GenerationFailed)
            /\ run_pc' # run_pc)
          => (RowPersists /\ DegradedCellsSaved)]_vars

\* C19 as stated: when every search of the Profile Search Service failed, or
\* message generation failed for the whole row, the row is recorded as failed,
\* is not persisted, and the run goes on.
C19_SearchOrComposerFailureFailsRow ==
    [][(CompositionComplete /\ (NoRealCandidate \/ GenerationFailedTotally)
            /\ run_pc' # run_pc)
          => RowFails]_vars

\* C19, amended: neither makes the row fail. find_referrals returns and main
\* goes on to compose; with the composition complete the row goes to the persist
\* step with 3 sentinel candidates, or with the failure placeholder for every
\* real candidate, and is recorded as failed only if that step raises.
C19_SearchOrComposerFailureDegrades ==
    [][/\ (run_pc = "locating" /\ run_pc' # run_pc) =>
            (run_pc' = "composing" /\ failed' = failed)
       /\ (CompositionComplete /\ (NoRealCandidate \/ GenerationFailedTotally)
                /\ run_pc' # run_pc) =>
            \/ RowPersists /\ DegradedCellsSaved
            \/ RowFails /\ failed'[Len(failed')].at = "persist"
       /\ \A i \in DOMAIN failed' : failed'[i].at \in {"interpret", "score", "persist"}]_vars

C19_Witness ==
    /\ run_pc = "done"
    /\ failed = <<>>
    /\ \E r \in Range(succeeded) :
        /\ tracker.rows[r].refs[1] = RefText(SentinelCandidate)
        /\ tracker.rows[r].refs[3] = RefText(SentinelCandidate)
    /\ \E r \in Range(succeeded) : tracker.rows[r].msgs[1] = FailedMessage

\* the requests and cooldowns of one logical call, as far as it can get
AttemptLogs == {<<>>, <<"request">>, <<"request", "cooldown", "request">>}

\* C20: each logical call of the Text Completion Service (parse_jd,
\* match_resume_to_jd, call_claude) makes at most 2 attempts: a first attempt
\* that fails with a service error is followed by one retry after the cooldown,
\* and a failure of the retry goes to the caller; for interpretation and for
\* scoring it makes the row fail, no default result taking its place.
C20_AtMostTwoAttempts ==
    [][/\ jd_log' \in AttemptLogs /\ ms_log' \in AttemptLogs /\ gm_log' \in AttemptLogs
       /\ (jd_pc = "retry" /\ jd_pc' # jd_pc) =>
            /\ jd_log = <<"request">>
            /\ jd_log' = <<"request", "cooldown", "request">>
            /\ jd_pc' \in {"returned", "raised"}
            /\ jd_pc' = "raised" => jd_data' = NoJd
       /\ (ms_pc = "retry" /\ ms_pc' # ms_pc) =>
            /\ ms_log = <<"request">>
            /\ ms_log' = <<"request", "cooldown", "request">>
            /\ ms_pc' \in {"returned", "raised"}
            /\ ms_pc' = "raised" => match_result' = NoResult
       /\ (gm_pc = "retry" /\ gm_pc' # gm_pc) =>
            /\ gm_log = <<"request">>
            /\ gm_log' = <<"request", "cooldown", "request">>
            /\ gm_pc' = "fill"
       /\ (run_pc = "interpreting" /\ jd_pc = "raised" /\ run_pc' # run_pc) =>
            (RowFails /\ failed'[Len(failed')].at = "interpret")
       /\ (run_pc = "scoring" /\ ms_pc = "raised" /\ run_pc' # run_pc) =>
            (RowFails /\ failed'[Len(failed')].at = "score")]_vars

C20_Witness ==
    /\ run_pc = "scoring"
    /\ ms_pc = "raised"
    /\ ms_log = <<"request", "cooldown", "request">>
    /\ failed # <<>>
    /\ failed[1].at = "interpret"

\* ------------------------------------------------------------ referral searches
\* position i of the log holds a search that was issued (of any kind)
IsSearchAt(i) == rf_log[i] \in {"same_role", "hiring_manager", "peer", "fallback"}

\* C21: a search whose request failed is followed by the rate-limit cooldown and
\* one repeat of the same search, so a failing search is attempted exactly
\* twice: every failed request in the log is either the first attempt, followed
\* by the cooldown and the same search again, or that repeat itself.
C21_FailedSearchRepeatedOnce ==
    \A i \in DOMAIN rf_log :
        rf_log[i] = "failed" =>
            \/ /\ i + 2 <= Len(rf_log)
               /\ rf_log[i + 1] = "rate_limit_wait"
               /\ rf_log[i + 2] = rf_log[i - 1]
            \/ /\ i >= 3
               /\ rf_log[i - 2] = "rate_limit_wait"

\* the positions of the profiles returned by the search of this step whose URL
\* was not accepted before the step
NewAt == {j \in DOMAIN rf_found' : rf_found'[j].url \notin seen_urls}

\* the step is one of the three targeted searches
TargetedSearchStep == rf_pc = "targeted" /\ rf_i' = rf_i + 1

TagsOf(kind) == {i \in DOMAIN rf_out' : rf_out'[i].connection_type = kind}

\* C22: each targeted search adds at most one candidate to the row, the first
\* profile in its result order whose URL was not yet accepted, tagged with the
\* relationship type of that search; in the returned list a candidate that is
\* not a sentinel is tagged same_role, hiring_manager or peer, at most one is
\* tagged same_role, at most one hiring_manager, and only sentinels are tagged
\* unknown.
C22_OneCandidatePerTargetedSearch ==
    [][/\ TargetedSearchStep =>
            IF NewAt = {} THEN referrals' = referrals
            ELSE LET j == CHOOSE j \in NewAt : \A k \in NewAt : j <= k
                 IN  referrals' = Append(referrals,
                        [rf_found'[j] EXCEPT !.connection_type = ConnectionTypes[rf_i + 1]])
       /\ (rf_pc = "fill" /\ rf_pc' = "done") =>
            /\ \A i \in DOMAIN rf_out' :
                    /\ ~IsSentinelName(rf_out'[i]) =>
                            rf_out'[i].connection_type \in {"same_role", "hiring_manager", "peer"}
                    /\ rf_out'[i].connection_type = "unknown" => rf_out'[i] = SentinelCandidate
            /\ Cardinality(TagsOf("same_role")) <= 1
            /\ Cardinality(TagsOf("hiring_manager")) <= 1]_vars

\* a returned list in which the second search skipped a profile the first had
\* accepted and took the next one
C22_Witness ==
    /\ rf_pc = "done"
    /\ rf_dup
    /\ Len(rf_out) = NumSlots
    /\ rf_out[1].connection_type = "same_role"
    /\ rf_out[2].connection_type = "hiring_manager"
    /\ rf_out[3] = SentinelCandidate

\* the positions of the profiles returned by the search of this step that hold
\* a URL not accepted before the step, each URL at its first position
FirstNewAt == {j \in NewAt : \A k \in 1..(j - 1) : rf_found'[k].url # rf_found'[j].url}

\* what the step appended to the list
AddedBy == SubSeq(referrals', Len(referrals) + 1, Len(referrals'))

FallbacksIn(log) == Cardinality({i \in DOMAIN log : log[i] = "fallback"})

\* C23: the fallback search is issued exactly when fewer than 3 candidates were
\* accepted by the three targeted searches, and at most once; it only appends
\* profiles with URLs not accepted before, tagged peer, in result order, and it
\* stops at 3 candidates or at the end of its results.
C23_FallbackOnlyWhenShort ==
    [][/\ FallbacksIn(rf_log') <= 1
       /\ rf_pc # "fallback" => FallbacksIn(rf_log') = FallbacksIn(rf_log)
       /\ rf_pc = "fallback" =>
            /\ FallbacksIn(rf_log') = 1 <=> Len(referrals) < NumSlots
            /\ Len(referrals') >= Len(referrals)
            /\ SubSeq(referrals', 1, Len(referrals)) = referrals
            /\ FallbacksIn(rf_log') = 0 => referrals' = referrals
            /\ FallbacksIn(rf_log') = 1 =>
                /\ Len(AddedBy) = Min(Cardinality(FirstNewAt), NumSlots - Len(referrals))
                /\ \A a \in DOMAIN AddedBy :
                    \E j \in FirstNewAt :
                        /\ Cardinality({k \in FirstNewAt : k <= j}) = a
                        /\ AddedBy[a] = [rf_found'[j] EXCEPT !.connection_type = "peer"]]_vars

\* the fallback was issued with two candidates held, returned two new profiles
\* and only the first of them was taken
C23_Witness ==
    /\ rf_pc = "fill"
    /\ FallbacksIn(rf_log) = 1
    /\ Len(referrals) = NumSlots
    /\ referrals[NumSlots].connection_type = "peer"
    /\ Len(rf_found) = 2
    /\ rf_found[1].url = referrals[NumSlots].url
    /\ rf_found[2].url \notin seen_urls

SearchOrder == <<"same_role", "hiring_manager", "peer", "fallback">>

\* the positions of the log that hold a search, and how many searches the log
\* holds up to position i
SearchesAt == {i \in DOMAIN rf_log : IsSearchAt(i)}
SearchRank(i) == Cardinality({k \in SearchesAt : k <= i})

\* C24: in one call of find_referrals the searches are issued in the order
\* same_role, hiring_manager, peer, fallback, none of the first three left
\* out, and every search but the first comes directly after a pacing delay.
C24_SearchesInFixedOrderPaced ==
    /\ \A i \in SearchesAt :
        /\ SearchRank(i) <= Len(SearchOrder)
        /\ rf_log[i] = SearchOrder[SearchRank(i)]
        /\ IF SearchRank(i) = 1 THEN i = 1 ELSE rf_log[i - 1] = "pause"
    /\ \A i \in DOMAIN rf_log : rf_log[i] = "pause" => i < Len(rf_log) /\ IsSearchAt(i + 1)
    /\ rf_pc \in {"fallback", "fill", "done"} => Cardinality(SearchesAt) >= Len(ConnectionTypes)

\* a call that issued all four searches, the second of them failing
C24_Witness ==
    /\ rf_pc = "done"
    /\ rf_log = <<"same_role", "pause", "hiring_manager", "failed", "pause", "peer",
                  "pause", "fallback">>

\* --------------------------------------------------------------- pacing of a row
\* the entry of the log before position i and the one after it ("" at the ends)
LogBefore(i) == IF i > 1 THEN run_log[i - 1] ELSE ""
LogAfter(i) == IF i < Len(run_log) THEN run_log[i + 1] ELSE ""

\* C25 as stated: in every row the Row Processor sleeps after interpretation,
\* before scoring starts, and after scoring, before referral location starts,
\* and takes no sleep of its own next to the referral search.
C25_DelayAfterInterpretAndScore ==
    \A i \in DOMAIN run_log :
        /\ run_log[i] = "match_resume_to_jd" => LogBefore(i) = "sleep"
        /\ run_log[i] = "find_referrals" => LogBefore(i) = "sleep" /\ LogAfter(i) # "sleep"

\* C25 as the code has it: the Row Processor sleeps after interpretation, before
\* scoring starts, and after referral location, before composition starts;
\* between scoring and referral location it takes no sleep.
C25_DelayAfterInterpretAndLocate ==
    \A i \in DOMAIN run_log :
        /\ run_log[i] = "match_resume_to_jd" =>
                LogBefore(i) = "sleep" /\ i > 2 /\ run_log[i - 2] = "parse_jd"
        /\ run_log[i] = "find_referrals" => LogBefore(i) = "match_resume_to_jd"
        /\ run_log[i] = "generate_messages" =>
                LogBefore(i) = "sleep" /\ i > 2 /\ run_log[i - 2] = "find_referrals"
        /\ run_log[i] = "sleep" => LogAfter(i) \in {"match_resume_to_jd", "generate_messages"}

\* a row went through all its steps and was persisted
C25_Witness ==
    /\ run_pc = "next_row"
    /\ run_log = <<"parse_jd", "sleep", "match_resume_to_jd", "find_referrals", "sleep",
                   "generate_messages", "write_results">>

\* ------------------------------------------------------------ batched generation
RequestsIn(log) == Cardinality({i \in DOMAIN log : log[i] = "request"})

\* the candidates of the argument that are not sentinels, in order
NonSentinels == SelectSeq(gm_referrals, LAMBDA p : ~IsSentinelName(p))

\* C26 as stated: one call of generate_messages makes at most one request to
\* the Text Completion Service, for all candidates that are not sentinels, and
\* none when every candidate is a sentinel.
C26_AtMostOneRequest ==
    /\ RequestsIn(gm_log) <= 1
    /\ gm_log # <<>> => real_profiles = NonSentinels
    /\ NonSentinels = <<>> => gm_log = <<>>

\* C26 with the retry: one call of generate_messages makes one batched request
\* for all candidates that are not sentinels, repeated once at most, after a
\* cooldown, when the first attempt failed; it makes no request per candidate
\* and none when every candidate is a sentinel.
C26_OneBatchRetriedOnce ==
    /\ gm_log \in AttemptLogs
    /\ gm_log # <<>> => real_profiles = NonSentinels
    /\ NonSentinels = <<>> => gm_log = <<>>
    /\ gm_pc = "done" /\ NonSentinels # <<>> => gm_log # <<>>

\* both attempts of a batch of two candidates failed and the call returned
C26_Witness ==
    /\ gm_pc = "done"
    /\ gm_log = <<"request", "cooldown", "request">>
    /\ Len(NonSentinels) = 2
    /\ gm_parsed = NoReply

\* ----------------------------------------------------------------- sentinel slots
\* the slots of the returned list tagged unknown
UnknownSlots == {i \in DOMAIN rf_out : rf_out[i].connection_type = "unknown"}

\* C27: a returned list holds 3 minus the number of accepted candidates
\* sentinels, in its last slots only, each named "Could not find profile" and
\* tagged unknown, the other slots holding the accepted candidates; with nothing
\* accepted it is three sentinels.
C27_SentinelsFillTrailingSlots ==
    rf_pc = "done" =>
        /\ Len(rf_out) = NumSlots
        /\ Cardinality(UnknownSlots) = NumSlots - Cardinality(seen_urls)
        /\ \A i \in UnknownSlots :
                /\ rf_out[i].name = SentinelName
                /\ \A j \in DOMAIN rf_out : j > i => j \in UnknownSlots
        /\ \A i \in DOMAIN rf_out : i \notin UnknownSlots => rf_out[i].url \in seen_urls
        /\ seen_urls = {} => \A i \in DOMAIN rf_out : rf_out[i] = SentinelCandidate

\* the three targeted searches and the fallback all returned without a profile
\* and the list returned is three sentinels
C27_Witness ==
    /\ rf_pc = "done"
    /\ rf_log = <<"same_role", "pause", "hiring_manager", "pause", "peer", "pause",
                  "fallback">>
    /\ seen_urls = {}
    /\ rf_out = <<SentinelCandidate, SentinelCandidate, SentinelCandidate>>

\* ------------------------------------------------------- failures of parse_resume
\* the step is a call of parse_resume, and the record of that call
ResumeCallStep == Len(rs_calls') = Len(rs_calls) + 1
ThisCall == rs_calls'[Len(rs_calls')]

\* C28: a call of parse_resume fails with FileNotFoundError whenever the resume
\* file does not exist, a cache file or not, and with ValueError when it
\* extracts and gets no text; a call that fails leaves the cache file as it
\* was.
C28_FailuresLeaveCache ==
    [][ResumeCallStep =>
        /\ ~resume_pdf.exists => ThisCall.result = "not_found" /\ ~ThisCall.extracted
        /\ (ThisCall.extracted /\ ~resume_pdf.has_text) => ThisCall.result = "no_text"
        /\ ThisCall.result = "not_found" => ~resume_pdf.exists
        /\ ThisCall.result = "no_text" => ThisCall.extracted /\ ~resume_pdf.has_text
        /\ ThisCall.result \in {"not_found", "no_text"} =>
                cache' = cache /\ ~ThisCall.wrote]_vars

\* a call failed for a missing resume with a cache file beside it, and a later
\* call failed for a resume without text, the cache file still there
C28_Witness ==
    /\ cache.state = "file"
    /\ \E i, j \in DOMAIN rs_calls :
        /\ i < j
        /\ rs_calls[i].result = "not_found"
        /\ rs_calls[j].result = "no_text"
        /\ rs_calls[j].before = "stale"

\* -------------------------------------------------------------------- failed rows
\* the rows a run started now would take from the tracker
SelectedByNextRun == Range(ReadUnprocessedRows(tracker))

\* C29: a row recorded as failed has none of its result cells written in the
\* tracker, its "Match %" cell is still empty, and a run started afterwards
\* selects it again.
C29_FailedRowLeftUnwritten ==
    \A r \in FailedRows :
        /\ ~HoldsValue(tracker.rows[r].c)
        /\ tracker.rows[r].d = NoneCell
        /\ tracker.rows[r].refs = <<>>
        /\ tracker.rows[r].msgs = <<>>
        /\ r \in SelectedByNextRun

\* a run ended with a row that failed when its results were written and a row
\* that failed at scoring
C29_Witness ==
    /\ run_pc = "done"
    /\ Len(failed) = 2
    /\ failed[1].at = "persist"
    /\ failed[2].at = "score"
    /\ FailedRows \subseteq SelectedByNextRun

\* -------------------------------------------------------------- the end of a run
\* the steps of the program itself: every call it makes returns or raises
RunProgress ==
    \/ RunCheckKey \/ RunReadRows \/ RunParseResume \/ RunEnterWriter \/ RunStartRow
    \/ RunAfterParseJd \/ RunAfterMatch \/ RunAfterReferrals \/ RunAfterMessages
    \/ RunSummary
    \/ JdFirstAttempt \/ JdRetry \/ MsFirstAttempt \/ MsRetry
    \/ RfTargetedSearch \/ RfFallback \/ RfFillAndReturn
    \/ GmPartition \/ GmCallFirst \/ GmCallRetry \/ GmFillAndReturn

\* a run in which the program goes on as long as it has a step to take
SpecRunLive == SpecRun /\ WF_vars(RunProgress)

\* how often row r is in the list
TimesIn(list, r) == Cardinality({i \in DOMAIN list : list[i] = r})

\* the selected rows whose "Match %" cell holds a value: the rows this run saved
PersistedRows == {r \in Range(unprocessed) : HoldsValue(tracker.rows[r].c)}

\* at the summary every selected row is once in succeeded or once in failed,
\* and succeeded holds the rows that were saved
SummaryAccountsForRows ==
    run_pc \in {"summary", "done"} =>
        /\ \A r \in Range(unprocessed) :
                TimesIn(succeeded, r) + TimesIn([i \in DOMAIN failed |-> failed[i].row], r) = 1
        /\ Range(succeeded) \cup FailedRows \subseteq Range(unprocessed)
        /\ Range(succeeded) = PersistedRows

\* C30: once the row loop is entered the run comes to its summary and ends,
\* whatever its calls return or raise, and at the summary every selected row is
\* in exactly one of succeeded and failed, the succeeded rows being exactly the
\* rows that were persisted.
C30_RunEndsWithEveryRowAccounted ==
    /\ (run_pc = "next_row") ~> (run_pc = "done")
    /\ []SummaryAccountsForRows

\* a run ended with its first row persisted and its second row failed
C30_Witness ==
    /\ run_pc = "done"
    /\ Len(unprocessed) = 2
    /\ succeeded = <<unprocessed[1]>>
    /\ Len(failed) = 1
    /\ failed[1].row = unprocessed[2]
    /\ PersistedRows = {unprocessed[1]}

\* within one call, every request after the first follows a cooldown
CooledRetries(log) ==
    \A i \in 2..Len(log) : log[i] = "request" => log[i - 1] = "cooldown"

\* the step makes the first request of a call of parse_jd, match_resume_to_jd
\* or call_claude
FirstRequestStep ==
    \/ jd_log = <<>> /\ jd_log' # <<>>
    \/ ms_log = <<>> /\ ms_log' # <<>>
    \/ gm_log = <<>> /\ gm_log' # <<>>

\* C31: throughout a run, between any two consecutive requests to the Text
\* Completion Service there is at least one pacing delay or retry cooldown: a
\* call makes its first request only when the run has slept since its last
\* request (or has made none yet), the interpretation request of a row after
\* the composition request of the row before it included, and inside a call
\* every further request follows a cooldown.
C31_DelayBetweenConsecutiveRequests ==
    [][/\ FirstRequestStep => tc_gap # "request"
       /\ CooledRetries(jd_log') /\ CooledRetries(ms_log') /\ CooledRetries(gm_log')]_vars

====
